---- MODULE Spec2Model ----
(***************************************************************************)
(* Student feedback platform: the MongoDB-backed store (User, Course,      *)
(* Feedback collections) and the Express route handlers that read and      *)
(* write it.  Every handler is a sequence of awaits; each await on the     *)
(* store is one atomic step, and handlers of different requests            *)
(* interleave between awaits.                                              *)
(***************************************************************************)
EXTENDS Integers, Sequences, FiniteSets, TLC

(* ----------------------------- bounds ---------------------------------- *)
\* Feedback ObjectIds handed out by the store: 1..MaxFeedbackId.
MaxFeedbackId == 2

\* Requests that can be in flight at the same time.
Slots == {"r1", "r2"}

Students == {"s1", "s2"}
Admins == {"a1", "a2"}
\* The admin whose session sends the administration requests.
AdminSessions == {"a1"}
UserIds == Admins \cup Students
CourseIds == {"c1", "c2"}
\* The courses in the store at the start; the other ids name no document.
InitialCourses == {"c1"}
FeedbackIds == 1..MaxFeedbackId

(* --------------------------- data model -------------------------------- *)
\* feedbackSchema.rating: integer, min 1, max 5.
MinRating == 1
MaxRating == 5

\* feedbackSchema.status: enum ['pending', 'approved', 'rejected'], default
\* 'approved'.
DefaultStatus_Pending == "pending"
DefaultStatus == "approved"

\* userSchema.role: enum ['student', 'admin'].
RoleOf(u) == IF u \in Admins THEN "admin" ELSE "student"

\* feedbackSchema.tags element setter: trim + lowercase.
CastTags(ts) ==
  LET LowerTag(t) ==
        CASE t = "Excellent" -> "excellent"
          [] t = "Positive" -> "positive"
          [] OTHER -> t
  IN [k \in 1..Len(ts) |-> LowerTag(ts[k])]

Includes(ts, t) == \E k \in 1..Len(ts) : ts[k] = t

\* The sentiment bucket of a rating, as pre('save') branches on it.
SentimentTag(rating) ==
  IF rating >= 4 THEN "positive"
  ELSE IF rating <= 2 THEN "needs-improvement"
  ELSE "neutral"

\* feedbackSchema.pre('save'): the element it pushes onto tags, if any.
\* ratingModified stands for this.isModified('rating') || this.isNew.
AutoTagPush_Always(ratingModified, rating, tags) ==
  IF ratingModified THEN <<SentimentTag(rating)>> ELSE <<>>

AutoTagPush(ratingModified, rating, tags) ==
  IF ratingModified /\ ~Includes(tags, SentimentTag(rating))
  THEN <<SentimentTag(rating)>>
  ELSE <<>>

(* ------------------------------ state ---------------------------------- *)
VARIABLES
  users,      \* User collection: set of [id, role, isBlocked]
  courses,    \* Course collection: set of [id, isActive]
  feedback,   \* Feedback collection: set of feedback documents
  nextId,     \* next Feedback _id the store hands out
  req,        \* the request handled in each slot
  sent,       \* the response the last step sent to its client, if any
  lastOrig,   \* history: the isBlocked value the last toggle-block replaced
  temp,       \* the files in the backend's temp directory
  host,       \* the assets the image host keeps, by public id
  adminPage,  \* the AdminFeedback component and its requests in flight
  auth        \* the AuthProvider, local storage and its calls in flight

\* What lies outside the three collections.
world == <<temp, host, adminPage, auth>>

vars == <<users, courses, feedback, nextId, req, sent, lastOrig, world>>

\* No file, no asset, no browser.
InitWorld == temp = {} /\ host = {} /\ adminPage = <<>> /\ auth = <<>>

\* A slot with no request in it.
IdleReq ==
  LET NoBody == [rating |-> 0, message |-> "", isAnonymous |-> {}, tags |-> {}]
  IN [type |-> "none", pc |-> "idle", caller |-> "none", target |-> "none",
      fid |-> 0, body |-> NoBody, doc |-> {}, mod |-> {}, stale |-> FALSE]

\* The step sent nothing.
NoResponse == [type |-> "none", caller |-> "none", target |-> "none", fid |-> 0,
               resp |-> "none", at |-> "none", count |-> 0]

\* HTTP status sent with each response message.
StatusCode(resp) ==
  CASE resp \in {"Created", "CourseCreated"} -> 201
    [] resp \in {"Updated", "Deleted", "CourseDeleted", "CourseToggled",
                 "StudentToggled", "StudentDeleted", "CourseStats", "UserStats",
                 "Dashboard", "FeedbackList", "Exported", "CourseUpdated",
                 "PictureUploaded"} -> 200
    [] resp \in {"CourseInactive", "AlreadySubmitted", "CannotDeleteCourse",
                 "OnlyStudents", "CannotTargetYourself",
                 "CannotDeleteStudent", "CourseExists", "ValidationFailed",
                 "NoImage"} -> 400
    [] resp = "NotAuthorized" -> 403
    [] resp \in {"CourseNotFound", "FeedbackNotFound", "StudentNotFound",
                 "UserNotFound"} -> 404
    [] resp \in {"ServerError", "DownloadError", "UploadFailed"} -> 500
    [] OTHER -> 0

(* --------------------------- store queries ----------------------------- *)
UserById(u) == {x \in users : x.id = u}
CourseById(c) == {x \in courses : x.id = c}
FeedbackById(i) == {f \in feedback : f.id = i}
FeedbackOfPair(s, c) == {f \in feedback : f.student = s /\ f.course = c}
CountByCourse(c) == Cardinality({f \in feedback : f.course = c})

UniqueIndexRejects_NoIndex(s, c) == FALSE

\* Unique compound index {student: 1, course: 1}: an insert of a pair that
\* is already indexed is rejected with duplicate-key error 11000.
UniqueIndexRejects(s, c) == FeedbackOfPair(s, c) /= {}

Init ==
  /\ users = {[id |-> u, role |-> RoleOf(u), isBlocked |-> FALSE] : u \in UserIds}
  /\ courses = {[id |-> c, isActive |-> TRUE] : c \in InitialCourses}
  /\ feedback = {}
  /\ nextId = 1
  /\ req = [i \in Slots |-> IdleReq]
  /\ sent = NoResponse
  /\ lastOrig = [s \in Students |-> "none"]
  /\ InitWorld

(* ------------------------- request plumbing ---------------------------- *)
Free(i) == req[i].pc = "idle"

\* res.status(..).json(..): the request answered, the message, the count it
\* names, and the await of the handler it was sent after.
Response(r, resp, n) ==
  [type |-> r.type, caller |-> r.caller, target |-> r.target, fid |-> r.fid,
   resp |-> resp, at |-> r.pc, count |-> n]

\* The handler of slot i sends a response and ends.
Respond(i, r, resp, n) ==
  /\ req' = [req EXCEPT ![i] = IdleReq]
  /\ sent' = Response(r, resp, n)

\* The handler of slot i goes on to its next await; the step sends nothing.
Continue(i, r2) ==
  /\ req' = [req EXCEPT ![i] = r2]
  /\ sent' = NoResponse

Goto(i, r, pc) == Continue(i, [r EXCEPT !.pc = pc])

\* middleware protect: the token's user is loaded from the store.
Protect(u) == UserById(u) /= {}

(* ------------------- POST /api/feedback (submit) ----------------------- *)
\* The handler starts: protect + student middleware passed, body validated.
SubmitStart(i, s, c, b) ==
  /\ Free(i)
  /\ Protect(s)
  /\ nextId + Cardinality({j \in Slots : req[j].type = "submit" /\ req[j].pc /= "idle"})
       <= MaxFeedbackId
  /\ Continue(i, [IdleReq EXCEPT !.type = "submit", !.pc = "findCourse",
                                !.caller = s, !.target = c, !.body = b])
  /\ UNCHANGED <<users, courses, feedback, nextId, lastOrig, world>>

SubmitFindCourse_NoActiveCheck(i) ==
  LET r == req[i]
  IN /\ r.type = "submit" /\ r.pc = "findCourse"
     /\ IF CourseById(r.target) = {} THEN Respond(i, r, "CourseNotFound", 0)
        ELSE Goto(i, r, "findOne")
     /\ UNCHANGED <<users, courses, feedback, nextId, lastOrig, world>>

\* const courseDoc = await Course.findById(course); the two checks on it.
SubmitFindCourse(i) ==
  LET r == req[i]
      courseDoc == CourseById(r.target)
  IN /\ r.type = "submit" /\ r.pc = "findCourse"
     /\ IF courseDoc = {} THEN Respond(i, r, "CourseNotFound", 0)
        ELSE IF \E d \in courseDoc : ~d.isActive THEN Respond(i, r, "CourseInactive", 0)
        ELSE Goto(i, r, "findOne")
     /\ UNCHANGED <<users, courses, feedback, nextId, lastOrig, world>>

\* const existingFeedback = await Feedback.findOne({student, course}).
SubmitFindOne(i) ==
  LET r == req[i]
      existingFeedback == FeedbackOfPair(r.caller, r.target)
  IN /\ r.type = "submit" /\ r.pc = "findOne"
     /\ IF existingFeedback /= {} THEN Respond(i, r, "AlreadySubmitted", 0)
        ELSE Goto(i, r, "create")
     /\ UNCHANGED <<users, courses, feedback, nextId, lastOrig, world>>

\* The document Feedback.create builds: schema defaults, then pre('save').
NewFeedback(id, s, c, b) ==
  LET tags0 == IF b.tags = {} THEN <<>> ELSE CastTags(CHOOSE ts \in b.tags : TRUE)
  IN [id |-> id, student |-> s, course |-> c, rating |-> b.rating,
      message |-> b.message,
      isAnonymous |-> (TRUE \in b.isAnonymous),
      tags |-> tags0 \o AutoTagPush(TRUE, b.rating, tags0),
      status |-> DefaultStatus]

SubmitCatch_Generic(code) == "ServerError"

\* The catch block of the submit handler.
SubmitCatch(code) == IF code = 11000 THEN "AlreadySubmitted" ELSE "ServerError"

\* await Feedback.create({...}): insert, or duplicate-key error into catch.
SubmitCreate(i) ==
  LET r == req[i]
  IN /\ r.type = "submit" /\ r.pc = "create"
     /\ IF UniqueIndexRejects(r.caller, r.target)
        THEN /\ Respond(i, r, SubmitCatch(11000), 0)
             /\ UNCHANGED <<feedback, nextId, world>>
        ELSE /\ feedback' = feedback \cup {NewFeedback(nextId, r.caller, r.target, r.body)}
             /\ nextId' = nextId + 1
             /\ Respond(i, r, "Created", 0)
     /\ UNCHANGED <<users, courses, lastOrig, world>>

(* ------------------- PUT /api/feedback/:id (update) -------------------- *)
UpdateStart(i, s, id, b) ==
  /\ Free(i)
  /\ Protect(s)
  /\ Continue(i, [IdleReq EXCEPT !.type = "update", !.pc = "findById",
                                !.caller = s, !.fid = id, !.body = b])
  /\ UNCHANGED <<users, courses, feedback, nextId, lastOrig, world>>

Assigned_Unconditional(f, b) ==
  [f EXCEPT !.rating = b.rating,
            !.message = b.message,
            !.isAnonymous = TRUE \in b.isAnonymous,
            !.tags = IF b.tags /= {} THEN CastTags(CHOOSE ts \in b.tags : TRUE) ELSE <<>>]

\* "Update fields if provided": the document after the four assignments.
Assigned(f, b) ==
  [f EXCEPT !.rating = IF b.rating /= 0 THEN b.rating ELSE @,
            !.message = IF b.message /= "" THEN b.message ELSE @,
            !.isAnonymous = IF b.isAnonymous /= {} THEN TRUE \in b.isAnonymous ELSE @,
            !.tags = IF b.tags /= {} THEN CastTags(CHOOSE ts \in b.tags : TRUE) ELSE @]

\* The paths mongoose marks modified: those whose value changed.
ModifiedPaths(f, g) ==
  {p \in {"rating", "message", "isAnonymous", "tags"} : f[p] /= g[p]}

UpdateFindById_NoOwnerCheck(i) ==
  LET r == req[i]
      found == FeedbackById(r.fid)
  IN /\ r.type = "update" /\ r.pc = "findById"
     /\ IF found = {} THEN Respond(i, r, "FeedbackNotFound", 0)
        ELSE LET f == CHOOSE x \in found : TRUE
             IN Continue(i, [r EXCEPT !.pc = "save", !.doc = {Assigned(f, r.body)},
                                     !.mod = ModifiedPaths(f, Assigned(f, r.body))])
     /\ UNCHANGED <<users, courses, feedback, nextId, lastOrig, world>>

\* await Feedback.findById(id); 404; ownership check; the assignments.
UpdateFindById(i) ==
  LET r == req[i]
      found == FeedbackById(r.fid)
  IN /\ r.type = "update" /\ r.pc = "findById"
     /\ IF found = {} THEN Respond(i, r, "FeedbackNotFound", 0)
        ELSE LET f == CHOOSE x \in found : TRUE
             IN IF f.student /= r.caller THEN Respond(i, r, "NotAuthorized", 0)
                ELSE Continue(i, [r EXCEPT !.pc = "save", !.doc = {Assigned(f, r.body)},
                                           !.mod = ModifiedPaths(f, Assigned(f, r.body))])
     /\ UNCHANGED <<users, courses, feedback, nextId, lastOrig, world>>

\* The stored document after save() of local document d: pre('save') runs on
\* d, then only the modified paths are written; a pushed tag is a $push onto
\* the stored array unless the whole array was assigned.
Saved(cur, d, mod) ==
  LET push == AutoTagPush("rating" \in mod, d.rating, d.tags)
  IN [cur EXCEPT !.rating = IF "rating" \in mod THEN d.rating ELSE @,
                 !.message = IF "message" \in mod THEN d.message ELSE @,
                 !.isAnonymous = IF "isAnonymous" \in mod THEN d.isAnonymous ELSE @,
                 !.tags = IF "tags" \in mod THEN d.tags \o push ELSE @ \o push]

\* await feedback.save().  Nothing modified: no write.  Document gone, or
\* the whole tags array assigned after another save changed the array
\* (version mismatch): save throws and the catch block answers 500.
UpdateSave(i) ==
  LET r == req[i]
      d == CHOOSE x \in r.doc : TRUE
      cur == FeedbackById(r.fid)
      push == AutoTagPush("rating" \in r.mod, d.rating, d.tags)
      arrayWrite == "tags" \in r.mod \/ push /= <<>>
  IN /\ r.type = "update" /\ r.pc = "save"
     /\ IF r.mod = {}
        THEN /\ Respond(i, r, "Updated", 0)
             /\ UNCHANGED <<feedback, world>>
        ELSE IF cur = {} \/ ("tags" \in r.mod /\ r.stale)
        THEN /\ Respond(i, r, "ServerError", 0)
             /\ UNCHANGED <<feedback, world>>
        ELSE /\ feedback' = (feedback \ cur) \cup {Saved(c, d, r.mod) : c \in cur}
             /\ sent' = Response(r, "Updated", 0)
             /\ req' = [j \in Slots |->
                  IF j = i THEN IdleReq
                  ELSE IF arrayWrite /\ req[j].type = "update" /\ req[j].pc = "save"
                          /\ req[j].fid = r.fid
                  THEN [req[j] EXCEPT !.stale = TRUE]
                  ELSE req[j]]
     /\ UNCHANGED <<users, courses, nextId, lastOrig, world>>

(* ----------------- DELETE /api/feedback/:id (delete) ------------------- *)
DeleteStart(i, s, id) ==
  /\ Free(i)
  /\ Protect(s)
  /\ Continue(i, [IdleReq EXCEPT !.type = "delete", !.pc = "findById",
                                !.caller = s, !.fid = id])
  /\ UNCHANGED <<users, courses, feedback, nextId, lastOrig, world>>

DeleteFindById(i) ==
  LET r == req[i]
      found == FeedbackById(r.fid)
  IN /\ r.type = "delete" /\ r.pc = "findById"
     /\ IF found = {} THEN Respond(i, r, "FeedbackNotFound", 0)
        ELSE IF \E f \in found : f.student /= r.caller
        THEN Respond(i, r, "NotAuthorized", 0)
        ELSE Goto(i, r, "remove")
     /\ UNCHANGED <<users, courses, feedback, nextId, lastOrig, world>>

\* await Feedback.findByIdAndDelete(id): no error when it is already gone.
DeleteRemove(i) ==
  LET r == req[i]
  IN /\ r.type = "delete" /\ r.pc = "remove"
     /\ feedback' = feedback \ FeedbackById(r.fid)
     /\ Respond(i, r, "Deleted", 0)
     /\ UNCHANGED <<users, courses, nextId, lastOrig, world>>

(* ------------------- DELETE /api/courses/:id --------------------------- *)
DeleteCourseStart(i, a, c) ==
  /\ Free(i)
  /\ Protect(a)
  /\ Continue(i, [IdleReq EXCEPT !.type = "deleteCourse", !.pc = "find",
                                !.caller = a, !.target = c])
  /\ UNCHANGED <<users, courses, feedback, nextId, lastOrig, world>>

DeleteCourseFind(i) ==
  LET r == req[i]
  IN /\ r.type = "deleteCourse" /\ r.pc = "find"
     /\ IF CourseById(r.target) = {} THEN Respond(i, r, "CourseNotFound", 0)
        ELSE Goto(i, r, "count")
     /\ UNCHANGED <<users, courses, feedback, nextId, lastOrig, world>>

DeleteCourseCount_NoGuard(i) ==
  LET r == req[i]
  IN /\ r.type = "deleteCourse" /\ r.pc = "count"
     /\ Goto(i, r, "remove")
     /\ UNCHANGED <<users, courses, feedback, nextId, lastOrig, world>>

\* const feedbackCount = await Feedback.countDocuments({course}); the guard.
DeleteCourseCount(i) ==
  LET r == req[i]
      feedbackCount == CountByCourse(r.target)
  IN /\ r.type = "deleteCourse" /\ r.pc = "count"
     /\ IF feedbackCount > 0 THEN Respond(i, r, "CannotDeleteCourse", feedbackCount)
        ELSE Goto(i, r, "remove")
     /\ UNCHANGED <<users, courses, feedback, nextId, lastOrig, world>>

\* await Course.findByIdAndDelete(id).
DeleteCourseRemove(i) ==
  LET r == req[i]
  IN /\ r.type = "deleteCourse" /\ r.pc = "remove"
     /\ courses' = courses \ CourseById(r.target)
     /\ Respond(i, r, "CourseDeleted", 0)
     /\ UNCHANGED <<users, feedback, nextId, lastOrig, world>>

(* ------------------ PATCH /api/courses/:id/toggle-active --------------- *)
ToggleActiveStart(i, a, c) ==
  /\ Free(i)
  /\ Protect(a)
  /\ Continue(i, [IdleReq EXCEPT !.type = "toggleActive", !.pc = "find",
                                !.caller = a, !.target = c])
  /\ UNCHANGED <<users, courses, feedback, nextId, lastOrig, world>>

\* const course = await Course.findById(id); course.isActive = !course.isActive.
ToggleActiveFind(i) ==
  LET r == req[i]
      found == CourseById(r.target)
  IN /\ r.type = "toggleActive" /\ r.pc = "find"
     /\ IF found = {} THEN Respond(i, r, "CourseNotFound", 0)
        ELSE Continue(i, [r EXCEPT !.pc = "save",
                                   !.doc = {[d EXCEPT !.isActive = ~d.isActive] : d \in found}])
     /\ UNCHANGED <<users, courses, feedback, nextId, lastOrig, world>>

\* await course.save(): writes the modified isActive; throws when the
\* document is gone.
ToggleActiveSave(i) ==
  LET r == req[i]
      cur == CourseById(r.target)
  IN /\ r.type = "toggleActive" /\ r.pc = "save"
     /\ IF cur = {}
        THEN /\ Respond(i, r, "ServerError", 0)
             /\ UNCHANGED <<courses, world>>
        ELSE /\ courses' = (courses \ cur) \cup r.doc
             /\ Respond(i, r, "CourseToggled", 0)
     /\ UNCHANGED <<users, feedback, nextId, lastOrig, world>>

(* -------------- PATCH /api/admin/students/:id/toggle-block ------------- *)
StudentGuard_None(student, caller) == "ok"

\* The two guards shared by toggle-block and delete-student.
StudentGuard(student, caller) ==
  IF student.role /= "student" THEN "OnlyStudents"
  ELSE IF student.id = caller THEN "CannotTargetYourself"
  ELSE "ok"

ToggleBlockStart(i, a, u) ==
  /\ Free(i)
  /\ Protect(a)
  /\ Continue(i, [IdleReq EXCEPT !.type = "toggleBlock", !.pc = "find",
                                !.caller = a, !.target = u])
  /\ UNCHANGED <<users, courses, feedback, nextId, lastOrig, world>>

ToggleBlockFind_AlwaysBlock(i) ==
  LET r == req[i]
      found == UserById(r.target)
  IN /\ r.type = "toggleBlock" /\ r.pc = "find"
     /\ IF found = {} THEN Respond(i, r, "StudentNotFound", 0)
        ELSE LET student == CHOOSE x \in found : TRUE
             IN IF StudentGuard(student, r.caller) /= "ok"
                THEN Respond(i, r, StudentGuard(student, r.caller), 0)
                ELSE Continue(i, [r EXCEPT !.pc = "save",
                         !.doc = {[student EXCEPT !.isBlocked = TRUE]}])
     /\ UNCHANGED <<users, courses, feedback, nextId, lastOrig, world>>

\* const student = await User.findById(id); guards; student.isBlocked = !...
ToggleBlockFind(i) ==
  LET r == req[i]
      found == UserById(r.target)
  IN /\ r.type = "toggleBlock" /\ r.pc = "find"
     /\ IF found = {} THEN Respond(i, r, "StudentNotFound", 0)
        ELSE LET student == CHOOSE x \in found : TRUE
             IN IF StudentGuard(student, r.caller) /= "ok"
                THEN Respond(i, r, StudentGuard(student, r.caller), 0)
                ELSE Continue(i, [r EXCEPT !.pc = "save",
                         !.doc = {[student EXCEPT !.isBlocked = ~student.isBlocked]}])
     /\ UNCHANGED <<users, courses, feedback, nextId, lastOrig, world>>

\* await student.save(): writes the modified isBlocked; throws when the
\* document is gone.  lastOrig remembers the value this toggle replaced.
ToggleBlockSave(i) ==
  LET r == req[i]
      cur == UserById(r.target)
      d == CHOOSE x \in r.doc : TRUE
  IN /\ r.type = "toggleBlock" /\ r.pc = "save"
     /\ IF cur = {}
        THEN /\ Respond(i, r, "ServerError", 0)
             /\ UNCHANGED <<users, lastOrig, world>>
        ELSE /\ users' = (users \ cur) \cup {[c EXCEPT !.isBlocked = d.isBlocked] : c \in cur}
             /\ lastOrig' = [lastOrig EXCEPT ![r.target] =
                               IF \E c \in cur : c.isBlocked THEN "true" ELSE "false"]
             /\ Respond(i, r, "StudentToggled", 0)
     /\ UNCHANGED <<courses, feedback, nextId, world>>

(* ------------------ DELETE /api/admin/students/:id --------------------- *)
DeleteStudentStart(i, a, u) ==
  /\ Free(i)
  /\ Protect(a)
  /\ Continue(i, [IdleReq EXCEPT !.type = "deleteStudent", !.pc = "find",
                                !.caller = a, !.target = u])
  /\ UNCHANGED <<users, courses, feedback, nextId, lastOrig, world>>

DeleteStudentFind(i) ==
  LET r == req[i]
      found == UserById(r.target)
  IN /\ r.type = "deleteStudent" /\ r.pc = "find"
     /\ IF found = {} THEN Respond(i, r, "StudentNotFound", 0)
        ELSE LET student == CHOOSE x \in found : TRUE
             IN IF StudentGuard(student, r.caller) /= "ok"
                THEN Respond(i, r, StudentGuard(student, r.caller), 0)
                ELSE Goto(i, r, "count")
     /\ UNCHANGED <<users, courses, feedback, nextId, lastOrig, world>>

DeleteStudentCount(i) ==
  LET CountByStudent(s) == Cardinality({f \in feedback : f.student = s})
      r == req[i]
      feedbackCount == CountByStudent(r.target)
  IN /\ r.type = "deleteStudent" /\ r.pc = "count"
     /\ IF feedbackCount > 0 THEN Respond(i, r, "CannotDeleteStudent", feedbackCount)
        ELSE Goto(i, r, "remove")
     /\ UNCHANGED <<users, courses, feedback, nextId, lastOrig, world>>

\* await User.findByIdAndDelete(id).
DeleteStudentRemove(i) ==
  LET r == req[i]
  IN /\ r.type = "deleteStudent" /\ r.pc = "remove"
     /\ users' = users \ UserById(r.target)
     /\ lastOrig' = [lastOrig EXCEPT ![r.target] = "none"]
     /\ Respond(i, r, "StudentDeleted", 0)
     /\ UNCHANGED <<courses, feedback, nextId, world>>

(* ------------------------- request inputs ------------------------------ *)

(* --------------------------- specifications ---------------------------- *)
\* The feedback lifecycle: students submit, edit and delete feedback while
\* an admin activates and deactivates courses.
Next ==
  LET \* Bodies that pass the express-validator chain of PUT /api/feedback/:id.
      UpdateBodies ==
        {[rating |-> 3, message |-> "m2", isAnonymous |-> {FALSE}, tags |-> {<<"Positive">>}]}
      \* Bodies that pass the express-validator chain of POST /api/feedback.
      SubmitBodies ==
        {[rating |-> 4, message |-> "m1", isAnonymous |-> {TRUE}, tags |-> {<<"Excellent">>}]}
  IN
       \E i \in Slots :
         \/ \E s \in Students, c \in CourseIds, b \in SubmitBodies : SubmitStart(i, s, c, b)
         \/ SubmitFindCourse(i)
         \/ SubmitFindOne(i)
         \/ SubmitCreate(i)
         \/ \E s \in Students, id \in FeedbackIds, b \in UpdateBodies : UpdateStart(i, s, id, b)
         \/ UpdateFindById(i)
         \/ UpdateSave(i)
         \/ \E s \in Students, id \in FeedbackIds : DeleteStart(i, s, id)
         \/ DeleteFindById(i)
         \/ DeleteRemove(i)
         \/ \E a \in AdminSessions, c \in CourseIds : ToggleActiveStart(i, a, c)
         \/ ToggleActiveFind(i)
         \/ ToggleActiveSave(i)

Spec == Init /\ [][Next]_vars

\* Administration: admins delete and toggle courses and students while
\* students submit feedback.
NextAdmin ==
  LET \* The one body the administration specification submits.
      PlainBodies == {[rating |-> 5, message |-> "m1", isAnonymous |-> {}, tags |-> {}]}
  IN
       \E i \in Slots :
         \/ \E s \in Students, c \in CourseIds, b \in PlainBodies : SubmitStart(i, s, c, b)
         \/ SubmitFindCourse(i)
         \/ SubmitFindOne(i)
         \/ SubmitCreate(i)
         \/ \E a \in AdminSessions, c \in CourseIds : DeleteCourseStart(i, a, c)
         \/ DeleteCourseFind(i)
         \/ DeleteCourseCount(i)
         \/ DeleteCourseRemove(i)
         \/ \E a \in AdminSessions, c \in CourseIds : ToggleActiveStart(i, a, c)
         \/ ToggleActiveFind(i)
         \/ ToggleActiveSave(i)
         \/ \E a \in AdminSessions, u \in UserIds : ToggleBlockStart(i, a, u)
         \/ ToggleBlockFind(i)
         \/ ToggleBlockSave(i)
         \/ \E a \in AdminSessions, u \in UserIds : DeleteStudentStart(i, a, u)
         \/ DeleteStudentFind(i)
         \/ DeleteStudentCount(i)
         \/ DeleteStudentRemove(i)

SpecAdmin == Init /\ [][NextAdmin]_vars

\* Sequential use: every operation of the system, one request at a time.
SeqSubmitBodies ==
  {[rating |-> 2, message |-> "m1", isAnonymous |-> {}, tags |-> {}],
   [rating |-> 4, message |-> "m1", isAnonymous |-> {TRUE}, tags |-> {<<"Excellent">>}]}

SeqUpdateBodies ==
  {[rating |-> 3, message |-> "", isAnonymous |-> {}, tags |-> {}],
   [rating |-> 0, message |-> "m2", isAnonymous |-> {FALSE}, tags |-> {<<"Positive">>}]}

NextSeq ==
  \E i \in {"r1"} :
    \/ \E s \in Students, c \in CourseIds, b \in SeqSubmitBodies : SubmitStart(i, s, c, b)
    \/ SubmitFindCourse(i)
    \/ SubmitFindOne(i)
    \/ SubmitCreate(i)
    \/ \E s \in Students, id \in FeedbackIds, b \in SeqUpdateBodies : UpdateStart(i, s, id, b)
    \/ UpdateFindById(i)
    \/ UpdateSave(i)
    \/ \E s \in Students, id \in FeedbackIds : DeleteStart(i, s, id)
    \/ DeleteFindById(i)
    \/ DeleteRemove(i)
    \/ \E a \in AdminSessions, c \in CourseIds : DeleteCourseStart(i, a, c)
    \/ DeleteCourseFind(i)
    \/ DeleteCourseCount(i)
    \/ DeleteCourseRemove(i)
    \/ \E a \in AdminSessions, c \in CourseIds : ToggleActiveStart(i, a, c)
    \/ ToggleActiveFind(i)
    \/ ToggleActiveSave(i)
    \/ \E a \in AdminSessions, u \in UserIds : ToggleBlockStart(i, a, u)
    \/ ToggleBlockFind(i)
    \/ ToggleBlockSave(i)
    \/ \E a \in AdminSessions, u \in UserIds : DeleteStudentStart(i, a, u)
    \/ DeleteStudentFind(i)
    \/ DeleteStudentCount(i)
    \/ DeleteStudentRemove(i)

SpecSeq == Init /\ [][NextSeq]_vars

\* Editing: the students submit feedback on one course and edit it, one
\* request at a time, with bodies that send or omit each of the four fields.
NextEdit ==
  \E i \in {"r1"} :
    \/ \E s \in Students, c \in InitialCourses, b \in SeqSubmitBodies : SubmitStart(i, s, c, b)
    \/ SubmitFindCourse(i)
    \/ SubmitFindOne(i)
    \/ SubmitCreate(i)
    \/ \E s \in Students, id \in FeedbackIds,
          b \in SeqUpdateBodies \cup
                {[rating |-> 5, message |-> "", isAnonymous |-> {}, tags |-> {}],
                 [rating |-> 1, message |-> "", isAnonymous |-> {TRUE}, tags |-> {<<"Positive">>}]} :
         UpdateStart(i, s, id, b)
    \/ UpdateFindById(i)
    \/ UpdateSave(i)

SpecEdit == Init /\ [][NextEdit]_vars

(* ---------------------- read side: stored documents --------------------- *)
\* Students and courses named by the stores the read-only handlers run on.
Authors == {"s1", "s2", "s3", "s4", "s5"}
StatCourses == {"c1", "c2", "c3", "c4", "c5", "c6"}

\* timestamps: createdAt as a calendar date (UTC).
Date(y, m, d) == [year |-> y, month |-> m, day |-> d]

DaysInMonth(y, m) ==
  IF m = 2 THEN (IF y % 4 = 0 /\ (y % 100 /= 0 \/ y % 400 = 0) THEN 29 ELSE 28)
  ELSE IF m \in {4, 6, 9, 11} THEN 30
  ELSE 31

\* a <= b on dates.
DateLeq(a, b) ==
  \/ a.year < b.year
  \/ a.year = b.year /\ a.month < b.month
  \/ a.year = b.year /\ a.month = b.month /\ a.day <= b.day

\* createdAt of the records whose date the store family does not vary.
SeedDate == Date(2025, 2, 10)

\* A Course document with its schema defaults.
CourseDoc(c) ==
  LET CourseCode ==
        CASE c = "c1" -> "ALG1" [] c = "c2" -> "BIO1" [] c = "c3" -> "CHE1"
          [] c = "c4" -> "DRA1" [] c = "c5" -> "ECO1" [] OTHER -> "FRE1"
      \* courseSchema name / code of the stored courses.
      CourseName ==
        CASE c = "c1" -> "Algebra" [] c = "c2" -> "Biology" [] c = "c3" -> "Chemistry"
          [] c = "c4" -> "Drawing" [] c = "c5" -> "Economics" [] OTHER -> "French"
  IN
       [id |-> c, isActive |-> TRUE, name |-> CourseName, code |-> CourseCode]

\* A User document with its schema defaults, and the userSchema name and
\* email of the stored users.
UserDoc(u, at) ==
  LET UserName ==
        CASE u = "s1" -> "Asha" [] u = "s2" -> "Bela" [] u = "s3" -> "Chandra"
          [] u = "s4" -> "Dev" [] u = "s5" -> "Esha" [] OTHER -> "Admin"
      UserEmail ==
        CASE u = "s1" -> "asha@x.io" [] u = "s2" -> "bela@x.io" [] u = "s3" -> "chandra@x.io"
          [] u = "s4" -> "dev@x.io" [] u = "s5" -> "esha@x.io" [] OTHER -> "admin@x.io"
  IN [id |-> u, role |-> RoleOf(u), isBlocked |-> FALSE, name |-> UserName,
      email |-> UserEmail, createdAt |-> at]

\* A Feedback document as the schema stores it (timestamps: true).
FeedbackDoc(id, s, c, rating, status, anon, at) ==
  [id |-> id, student |-> s, course |-> c, rating |-> rating, message |-> "m1",
   isAnonymous |-> anon, tags |-> <<SentimentTag(rating)>>, status |-> status,
   createdAt |-> at]

(* ---------------------- read side: store families ----------------------- *)
\* A slot of a family holds no document (<<>>) or one document of its pair.
Filled(pick) == {k \in DOMAIN pick : pick[k] /= <<>>}

StatStores ==
  LET \* Dates: up to three records, each created on one of the dates around the
      \* edge of the six-month window, the turn of the year and the last week.
      TrendStores ==
        LET TrendDates ==
              {Date(2024, 7, 20), Date(2024, 8, 10), Date(2024, 8, 15), Date(2024, 12, 5),
               Date(2025, 1, 5), Date(2025, 2, 10)}
            TrendAuthors == <<"s1", "s2", "s1">>
            TrendCourses == <<"c1", "c1", "c2">>
        IN {[feedback |-> {FeedbackDoc(k, TrendAuthors[k], TrendCourses[k], 1 + k, "approved", FALSE,
                                       p[k][1]) : k \in Filled(p)},
             courses |-> {CourseDoc("c1"), CourseDoc("c2")}] :
              p \in [1..3 -> {<<>>} \cup {<<d>> : d \in TrendDates}]}
      \* Many courses: two courses have no, one or two approved records and
      \* four more have none or one; the document of course c1 may be gone (its
      \* records are then orphans).
      CourseStores ==
        LET CourseOrder == <<"c1", "c2", "c3", "c4", "c5", "c6">>
            CoursePicks == {n \in [1..6 -> 0..2] : \A k \in 3..6 : n[k] <= 1}
        IN {[feedback |-> {FeedbackDoc(2 * k - 1, "s1", CourseOrder[k], 5, "approved", FALSE, SeedDate) :
                             k \in {j \in 1..6 : n[j] >= 1}}
                          \cup {FeedbackDoc(2 * k, "s2", CourseOrder[k], 2, "approved", FALSE, SeedDate) :
                             k \in {j \in 1..6 : n[j] >= 2}},
             courses |-> {CourseDoc(c) : c \in StatCourses \ gone}] :
              n \in CoursePicks, gone \in {{}, {"c1"}}}
      \* The ratings of the worked example: five records of one course.
      ExampleStores ==
        LET ExampleRatings == <<5, 5, 4, 3, 1>>
            ExampleAuthors == <<"s1", "s2", "s3", "s4", "s5">>
        IN {[feedback |-> {FeedbackDoc(k, ExampleAuthors[k], "c1", ExampleRatings[k], p[k], FALSE,
                                       SeedDate) : k \in 1..5},
             courses |-> {CourseDoc("c1"), CourseDoc("c2")}] :
              p \in [1..5 -> {"approved", "rejected"}]}
      \* Ratings and statuses: up to three records of course c1, two of them with
      \* any rating and any status and the third approved with any rating, beside
      \* nothing or one record of course c2.
      RatingStores ==
        LET RatingAuthors == <<"s1", "s2", "s3">>
            Ratings == MinRating..MaxRating
            StatusEnum == {"pending", "approved", "rejected"}
            RatingPicks ==
              {p \in [1..3 -> {<<>>} \cup (Ratings \X StatusEnum)] :
                 p[3] /= <<>> => p[3][2] = "approved"}
            OtherCourseFeedback ==
              {{}, {FeedbackDoc(4, "s1", "c2", 2, "approved", FALSE, SeedDate)},
                   {FeedbackDoc(4, "s1", "c2", 5, "pending", TRUE, SeedDate)}}
        IN {[feedback |-> {FeedbackDoc(k, RatingAuthors[k], "c1", p[k][1], p[k][2], FALSE, SeedDate) :
                             k \in Filled(p)} \cup other,
             courses |-> {CourseDoc("c1"), CourseDoc("c2")}] :
              p \in RatingPicks, other \in OtherCourseFeedback}
  IN
       RatingStores \cup ExampleStores \cup CourseStores \cup TrendStores

\* A store of schema-valid documents, with no request in flight.
InitStats ==
  /\ users = {UserDoc(u, SeedDate) : u \in {"a1"} \cup Authors}
  /\ \E st \in StatStores : feedback = st.feedback /\ courses = st.courses
  /\ nextId = 1 + Cardinality(feedback)
  /\ req = [i \in Slots |-> IdleReq]
  /\ sent = NoResponse
  /\ lastOrig = [s \in Students |-> "none"]
  /\ InitWorld

(* ------------------- Feedback model: statistics ------------------------ *)
RECURSIVE SumRatings(_)
\* $sum of '$rating' over a set of documents.
SumRatings(S) ==
  IF S = {} THEN 0
  ELSE LET f == CHOOSE x \in S : TRUE IN f.rating + SumRatings(S \ {f})

\* Math.round(avg * 100) / 100 of avg = sum / n, in hundredths: Math.round
\* rounds to the nearest integer, a half towards +Infinity.
JsRound2(sum, n) == (200 * sum + n) \div (2 * n)

\* { $round: [avg, 2] } of avg = sum / n, in hundredths: $round rounds to
\* the nearest, a half to the even neighbour.
MongoRound2(sum, n) ==
  LET q == (100 * sum) \div n
      r == (100 * sum) % n
  IN IF 2 * r < n THEN q
     ELSE IF 2 * r > n THEN q + 1
     ELSE IF q % 2 = 0 THEN q ELSE q + 1

ZeroDistribution_Empty == <<>>

\* const ratingDist = { 1: 0, 2: 0, 3: 0, 4: 0, 5: 0 }.
ZeroDistribution == [r \in 1..5 |-> 0]

RECURSIVE Tally(_, _)
\* ratings.forEach(rating => ratingDist[rating] = (ratingDist[rating] || 0) + 1)
\* over the ratings that $push collected from the documents of S.
Tally(dist, S) ==
  IF S = {} THEN dist
  ELSE LET f == CHOOSE x \in S : TRUE
           old == IF f.rating \in DOMAIN dist THEN dist[f.rating] ELSE 0
       IN Tally((f.rating :> old + 1) @@ dist, S \ {f})

\* The object both statistics functions and the per-student route build
\* from the single group of their aggregation, or the zero default.
StatsOf(S) ==
  IF S = {}
  THEN [totalFeedback |-> 0, averageRating |-> 0,
        ratingDistribution |-> [r \in 1..5 |-> 0]]
  ELSE [totalFeedback |-> Cardinality(S),
        averageRating |-> JsRound2(SumRatings(S), Cardinality(S)),
        ratingDistribution |-> Tally(ZeroDistribution, S)]

CourseMatch_AnyStatus(courseId) == {f \in feedback : f.course = courseId}

\* { $match: { course: courseId, status: 'approved' } }
CourseMatch(courseId) ==
  {f \in feedback : f.course = courseId /\ f.status = "approved"}

\* Feedback.getCourseStatistics(courseId).
getCourseStatistics(courseId) == StatsOf(CourseMatch(courseId))

\* course.getStatistics(), of the course document with _id courseId: the
\* pipeline starts with { $match: { course: this._id } }.
getStatistics(courseId) == StatsOf({f \in feedback : f.course = courseId})

ApprovedMatch_AnyStatus == feedback

\* { $match: { status: 'approved' } }
ApprovedMatch == {f \in feedback : f.status = "approved"}

\* Feedback.getOverallStatistics().
getOverallStatistics ==
  LET \* The second pipeline of getOverallStatistics: one group per course, then
      \* the number of groups and the $avg of their counts.
      CourseGroups == {f.course : f \in ApprovedMatch}
      stats == StatsOf(ApprovedMatch)
      totalCourses == Cardinality(CourseGroups)
  IN [totalFeedback |-> stats.totalFeedback,
      averageRating |-> stats.averageRating,
      ratingDistribution |-> stats.ratingDistribution,
      totalCourses |-> totalCourses,
      avgFeedbackPerCourse |->
        IF totalCourses = 0 THEN 0
        ELSE JsRound2(Cardinality(ApprovedMatch), totalCourses)]

(* ------------------------ read-only handlers ---------------------------- *)
\* res.status(..).json(..) of a handler that reads: body is the JSON payload
\* and now the clock the handler read.
ReadResponse(r, resp, now, body) ==
  [type |-> r.type, caller |-> r.caller, target |-> r.target, fid |-> r.fid,
   resp |-> resp, at |-> r.pc, count |-> 0, now |-> now, query |-> r.body,
   body |-> body]

RespondWith(i, r, resp, now, body) ==
  /\ req' = [req EXCEPT ![i] = IdleReq]
  /\ sent' = ReadResponse(r, resp, now, body)

\* middleware admin: the caller's role is 'admin'.
AdminOnly(u) == \E x \in UserById(u) : x.role = "admin"

(* ------------- GET /api/feedback/course/:courseId/stats ----------------- *)
CourseStatsStart(i, u, courseId) ==
  /\ Free(i)
  /\ Protect(u)
  /\ Continue(i, [IdleReq EXCEPT !.type = "courseStats", !.pc = "find",
                                !.caller = u, !.target = courseId])
  /\ UNCHANGED <<users, courses, feedback, nextId, lastOrig, world>>

CourseStatsFind_NoCheck(i) ==
  LET r == req[i]
  IN /\ r.type = "courseStats" /\ r.pc = "find"
     /\ Continue(i, [r EXCEPT !.pc = "aggregate", !.doc = CourseById(r.target)])
     /\ UNCHANGED <<users, courses, feedback, nextId, lastOrig, world>>

\* const course = await Course.findById(courseId); if (!course) 404.
CourseStatsFind(i) ==
  LET r == req[i]
      course == CourseById(r.target)
  IN /\ r.type = "courseStats" /\ r.pc = "find"
     /\ IF course = {} THEN RespondWith(i, r, "CourseNotFound", SeedDate, <<>>)
        ELSE Continue(i, [r EXCEPT !.pc = "aggregate", !.doc = course])
     /\ UNCHANGED <<users, courses, feedback, nextId, lastOrig, world>>

\* const stats = await Feedback.getCourseStatistics(courseId); 200.
CourseStatsAggregate(i) ==
  LET r == req[i]
  IN /\ r.type = "courseStats" /\ r.pc = "aggregate"
     /\ RespondWith(i, r, "CourseStats", SeedDate,
          [course |-> {[id |-> c.id, name |-> c.name, code |-> c.code] : c \in r.doc},
           stats |-> getCourseStatistics(r.target)])
     /\ UNCHANGED <<users, courses, feedback, nextId, lastOrig, world>>

(* ----------------------- GET /api/users/stats --------------------------- *)
UserStatsStart(i, u) ==
  LET \* middleware student: the caller's role is 'student'.
      StudentOnly == \E x \in UserById(u) : x.role = "student"
  IN /\ Free(i)
     /\ Protect(u)
     /\ StudentOnly
     /\ Continue(i, [IdleReq EXCEPT !.type = "userStats", !.pc = "aggregate",
                                   !.caller = u, !.target = u])
     /\ UNCHANGED <<users, courses, feedback, nextId, lastOrig, world>>

StudentMatch_Approved(u) == {f \in feedback : f.student = u /\ f.status = "approved"}

\* { $match: { student: req.user._id } }
StudentMatch(u) == {f \in feedback : f.student = u}

\* const stats = await Feedback.aggregate([...]); the result object; 200.
UserStatsAggregate(i) ==
  LET r == req[i]
  IN /\ r.type = "userStats" /\ r.pc = "aggregate"
     /\ RespondWith(i, r, "UserStats", SeedDate, StatsOf(StudentMatch(r.caller)))
     /\ UNCHANGED <<users, courses, feedback, nextId, lastOrig, world>>

(* -------------------- GET /api/admin/dashboard -------------------------- *)
\* oneWeekAgo.setDate(oneWeekAgo.getDate() - 7).
OneWeekAgo(now) ==
  IF now.day > 7 THEN Date(now.year, now.month, now.day - 7)
  ELSE LET y == IF now.month = 1 THEN now.year - 1 ELSE now.year
           m == IF now.month = 1 THEN 12 ELSE now.month - 1
       IN Date(y, m, now.day - 7 + DaysInMonth(y, m))

\* $limit of the topCourses pipeline.
TopLimit == 5

\* $group by course over the approved records, $lookup + $unwind of the
\* course document (a group whose course is gone has nothing to unwind and
\* is dropped), $project.
TopGroups ==
  {[courseId |-> c.id, courseName |-> c.name, courseCode |-> c.code,
    feedbackCount |-> Cardinality(CourseMatch(c.id)),
    averageRating |-> MongoRound2(SumRatings(CourseMatch(c.id)), Cardinality(CourseMatch(c.id)))] :
     c \in {d \in courses : CourseMatch(d.id) /= {}}}

SortFirst_Ascending(G) == {g \in G : \A h \in G : g.feedbackCount <= h.feedbackCount}

\* { $sort: { feedbackCount: -1 } }: the groups that may come first.
SortFirst(G) == {g \in G : \A h \in G : g.feedbackCount >= h.feedbackCount}

RECURSIVE SortLimit(_, _)
\* $sort then $limit: the lists of at most n groups the pipeline can return;
\* groups with equal feedbackCount come in any order.
SortLimit(G, n) ==
  IF G = {} \/ n = 0 THEN {<<>>}
  ELSE UNION {{<<g>> \o q : q \in SortLimit(G \ {g}, n - 1)} : g \in SortFirst(G)}

\* { $match: { createdAt: { $gte: sixMonthsAgo } } }
TrendMatch(now) ==
  LET \* sixMonthsAgo.setMonth(sixMonthsAgo.getMonth() - 6): the month moves
      \* back six places; a day the target month does not have runs over into
      \* the next.
      y == IF now.month > 6 THEN now.year ELSE now.year - 1
      m == IF now.month > 6 THEN now.month - 6 ELSE now.month + 6
      sixMonthsAgo == IF now.day <= DaysInMonth(y, m) THEN Date(y, m, now.day)
                      ELSE Date(y, m + 1, now.day - DaysInMonth(y, m))
  IN {f \in feedback : DateLeq(sixMonthsAgo, f.createdAt)}

TrendBefore_MonthOnly(a, b) == a[2] < b[2]

\* { $sort: { '_id.year': 1, '_id.month': 1 } }
TrendBefore(a, b) == a[1] < b[1] \/ (a[1] = b[1] /\ a[2] < b[2])

\* $concat of $toString year, '-', and the month padded to two digits.
MonthLabel(k) ==
  ToString(k[1]) \o "-" \o (IF k[2] < 10 THEN "0" \o ToString(k[2]) ELSE ToString(k[2]))

RECURSIVE TrendSort(_, _)
\* The groups in the order of the $sort stage (the keys are distinct).
TrendSort(now, K) ==
  LET \* The $project stage on the group of key k.
      TrendEntry(k) ==
        LET G == {f \in TrendMatch(now) : <<f.createdAt.year, f.createdAt.month>> = k}
        IN [month |-> MonthLabel(k), count |-> Cardinality(G),
            averageRating |-> MongoRound2(SumRatings(G), Cardinality(G))]
  IN
       IF K = {} THEN <<>>
       ELSE LET k == CHOOSE x \in K : \A z \in K \ {x} : ~TrendBefore(z, x)
            IN <<TrendEntry(k)>> \o TrendSort(now, K \ {k})

MonthlyTrends(now) ==
  LET \* _id of the $group stage: { year: { $year }, month: { $month } }.
      TrendKeys == {<<f.createdAt.year, f.createdAt.month>> : f \in TrendMatch(now)}
  IN
       TrendSort(now, TrendKeys)

DashboardStart(i, a) ==
  /\ Free(i)
  /\ Protect(a)
  /\ AdminOnly(a)
  /\ Continue(i, [IdleReq EXCEPT !.type = "dashboard", !.pc = "count", !.caller = a,
                                !.mod = <<>>])
  /\ UNCHANGED <<users, courses, feedback, nextId, lastOrig, world>>

\* The four countDocuments awaits, in the order of the handler: the
\* students, the students not blocked, the courses, the active courses.
\* Each reads the store as it is when the query runs.
DashboardCount(i) ==
  LET r == req[i]
      counted ==
        CASE Len(r.mod) = 0 -> Cardinality({x \in users : x.role = "student"})
          [] Len(r.mod) = 1 -> Cardinality({x \in users : x.role = "student" /\ ~x.isBlocked})
          [] Len(r.mod) = 2 -> Cardinality(courses)
          [] OTHER -> Cardinality({c \in courses : c.isActive})
  IN /\ r.type = "dashboard" /\ r.pc = "count"
     /\ Continue(i, [r EXCEPT !.mod = Append(@, counted),
                              !.pc = IF Len(r.mod) = 3 THEN "collect" ELSE "count"])
     /\ UNCHANGED <<users, courses, feedback, nextId, lastOrig, world>>

\* The awaits that follow the counts, the overall statistics and the
\* pipelines, taken as one step; then the response.
DashboardCollect(i) ==
  LET \* new Date() of the requests: the clock never runs behind a stored record.
      Clock == {Date(2025, 2, 15)}
      r == req[i]
      totalStudents == r.mod[1]
      activeStudents == r.mod[2]
      totalCourses == r.mod[3]
      activeCourses == r.mod[4]
  IN /\ r.type = "dashboard" /\ r.pc = "collect"
     /\ \E now \in Clock :
          LET recentFeedback ==
                Cardinality({f \in feedback : DateLeq(OneWeekAgo(now), f.createdAt)})
              recentStudents ==
                Cardinality({x \in users : x.role = "student"
                                            /\ DateLeq(OneWeekAgo(now), x.createdAt)})
          IN /\ \A f \in feedback : DateLeq(f.createdAt, now)
             /\ \E topCourses \in SortLimit(TopGroups, TopLimit) :
                  RespondWith(i, r, "Dashboard", now,
                    [users |-> [totalStudents |-> totalStudents,
                                activeStudents |-> activeStudents,
                                blockedStudents |-> totalStudents - activeStudents],
                     courses |-> [totalCourses |-> totalCourses,
                                  activeCourses |-> activeCourses,
                                  inactiveCourses |-> totalCourses - activeCourses],
                     feedback |-> getOverallStatistics,
                     recentFeedback |-> recentFeedback,
                     recentStudents |-> recentStudents,
                     topCourses |-> topCourses,
                     monthlyTrends |-> MonthlyTrends(now)])
     /\ UNCHANGED <<users, courses, feedback, nextId, lastOrig, world>>

(* ---------------------- read side: specification ------------------------ *)
\* The statistics requests, one at a time, on a store that stays as it is.
NextStats ==
  \E i \in {"r1"} :
    \/ \E u \in {"s1"}, c \in {"c1", "c2", "c6"} : CourseStatsStart(i, u, c)
    \/ CourseStatsFind(i)
    \/ CourseStatsAggregate(i)
    \/ \E u \in Authors : UserStatsStart(i, u)
    \/ UserStatsAggregate(i)
    \/ \E a \in AdminSessions : DashboardStart(i, a)
    \/ DashboardCount(i)
    \/ DashboardCollect(i)

SpecStats == InitStats /\ [][NextStats]_vars

(* ------------------- admin listing and export: stores ------------------- *)

InitList ==
  LET \* Up to three records, each anonymous or not and created on one of two
      \* days of its own; the author s2 may be gone from the User collection.
      ListStores ==
        LET ListAuthors == <<"s1", "s2", "s1">>
            ListCourses == <<"c1", "c1", "c2">>
            ListRatings == <<4, 2, 4>>
            ListDates == <<{Date(2025, 1, 5), Date(2025, 2, 10)},
                           {Date(2025, 1, 6), Date(2025, 2, 11)},
                           {Date(2025, 1, 7), Date(2025, 2, 12)}>>
            ListPicks ==
              {p \in [1..3 -> {<<>>} \cup (BOOLEAN \X UNION {ListDates[k] : k \in 1..3})] :
                 \A k \in 1..3 : p[k] /= <<>> => p[k][2] \in ListDates[k]}
        IN {[feedback |-> {FeedbackDoc(k, ListAuthors[k], ListCourses[k], ListRatings[k], "approved",
                                       p[k][1], p[k][2]) : k \in Filled(p)},
             users |-> {UserDoc(u, SeedDate) : u \in {"a1", "s1", "s2"} \ gone}] :
              p \in ListPicks, gone \in {{}, {"s2"}}}
  IN
       /\ \E st \in ListStores : feedback = st.feedback /\ users = st.users
       /\ courses = {CourseDoc("c1"), CourseDoc("c2")}
       /\ nextId = 1 + Cardinality(feedback)
       /\ req = [i \in Slots |-> IdleReq]
       /\ sent = NoResponse
       /\ lastOrig = [s \in Students |-> "none"]
       /\ InitWorld

\* req.query of the two routes: every parameter is optional.
ListQueries ==
  [course : {{}, {"c1"}}, rating : {{}, {4}}, student : {{}, {"s1"}},
   startDate : {{}, {Date(2025, 2, 1)}}, endDate : {{}, {Date(2025, 1, 31)}}]

(* ---------------------- populate, sort, CSV rows ------------------------ *)
\* .populate('course', 'name code ...').populate('student', 'name email'):
\* a reference whose document is gone is populated with null (here {}).
Populate(f, us, cs) ==
  [f EXCEPT !.student = {[id |-> x.id, name |-> x.name, email |-> x.email] :
                           x \in {y \in us : y.id = f.student}},
            !.course = {[id |-> c.id, name |-> c.name, code |-> c.code] :
                           c \in {d \in cs : d.id = f.course}}]

RECURSIVE SortByCreatedDesc(_)
\* .sort({ createdAt: -1 }): the orders the query can return.
SortByCreatedDesc(S) ==
  IF S = {} THEN {<<>>}
  ELSE UNION {{<<f>> \o q : q \in SortByCreatedDesc(S \ {f})} :
                f \in {g \in S : \A h \in S : DateLeq(h.createdAt, g.createdAt)}}

RECURSIVE Join(_)
\* item.tags.join(', ')
Join(ts) ==
  IF Len(ts) = 0 THEN ""
  ELSE IF Len(ts) = 1 THEN ts[1]
  ELSE ts[1] \o ", " \o Join(Tail(ts))

\* One element of csvData.
CsvRow(item) ==
  LET \* item.createdAt.toISOString(), the date part.
      IsoDate(d) ==
        ToString(d.year) \o "-" \o (IF d.month < 10 THEN "0" ELSE "") \o ToString(d.month)
          \o "-" \o (IF d.day < 10 THEN "0" ELSE "") \o ToString(d.day)
      student == CHOOSE x \in item.student : TRUE
      course == CHOOSE c \in item.course : TRUE
  IN [FeedbackID |-> ToString(item.id),
      StudentName |-> IF item.isAnonymous THEN "Anonymous" ELSE student.name,
      StudentEmail |-> IF item.isAnonymous THEN "Anonymous" ELSE student.email,
      CourseName |-> course.name,
      CourseCode |-> course.code,
      Instructor |-> "N/A",
      Department |-> "N/A",
      Rating |-> item.rating,
      Message |-> item.message,
      Tags |-> Join(item.tags),
      IsAnonymous |-> IF item.isAnonymous THEN "Yes" ELSE "No",
      Status |-> item.status,
      CreatedAt |-> IsoDate(item.createdAt)]

(* ---------------------- GET /api/admin/feedback ------------------------- *)
\* parseInt(req.query.page) || 1 and parseInt(req.query.limit) || 10.
DefaultPage == 1
DefaultLimit == 10

\* The query object of the listing: course, rating and student.
ListMatch(q) ==
  {f \in feedback : /\ q.course = {} \/ f.course \in q.course
                    /\ q.rating = {} \/ f.rating \in q.rating
                    /\ q.student = {} \/ f.student \in q.student}

\* .skip(skip).limit(limit) on a sorted result.
Page(rows, page, limit) ==
  LET skip == (page - 1) * limit
  IN SubSeq(rows, skip + 1, IF Len(rows) < skip + limit THEN Len(rows) ELSE skip + limit)

AdminListStart(i, a, q) ==
  /\ Free(i)
  /\ Protect(a)
  /\ AdminOnly(a)
  /\ Continue(i, [IdleReq EXCEPT !.type = "adminList", !.pc = "find",
                                !.caller = a, !.body = q])
  /\ UNCHANGED <<users, courses, feedback, nextId, lastOrig, world>>

\* const feedback = await Feedback.find(query).populate().sort().skip().limit()
AdminListFind(i) ==
  LET r == req[i]
      found == {Populate(f, users, courses) : f \in ListMatch(r.body)}
  IN /\ r.type = "adminList" /\ r.pc = "find"
     /\ \E rows \in SortByCreatedDesc(found) :
          Continue(i, [r EXCEPT !.pc = "count",
                                !.doc = {Page(rows, DefaultPage, DefaultLimit)}])
     /\ UNCHANGED <<users, courses, feedback, nextId, lastOrig, world>>

\* const total = await Feedback.countDocuments(query); 200.
AdminListCount(i) ==
  LET r == req[i]
      total == Cardinality(ListMatch(r.body))
  IN /\ r.type = "adminList" /\ r.pc = "count"
     /\ RespondWith(i, r, "FeedbackList", SeedDate,
          [feedback |-> CHOOSE rows \in r.doc : TRUE,
           pagination |-> [currentPage |-> DefaultPage,
                           totalPages |-> (total + DefaultLimit - 1) \div DefaultLimit,
                           totalItems |-> total,
                           itemsPerPage |-> DefaultLimit]])
     /\ UNCHANGED <<users, courses, feedback, nextId, lastOrig, world>>

(* ------------------- GET /api/admin/feedback/export --------------------- *)

ExportStart(i, a, q) ==
  /\ Free(i)
  /\ Protect(a)
  /\ AdminOnly(a)
  /\ Continue(i, [IdleReq EXCEPT !.type = "export", !.pc = "find",
                                !.caller = a, !.body = q])
  /\ UNCHANGED <<users, courses, feedback, nextId, lastOrig, world>>

\* const feedback = await Feedback.find(query).populate().sort(); csvData =
\* feedback.map(...), whose TypeError goes to the catch block.
ExportFind(i) ==
  LET \* item.student.name, item.course.name, ...: reading a property of null
      \* throws a TypeError.
      Throws(item) ==
        \/ ~item.isAnonymous /\ item.student = {}
        \/ item.course = {}
      \* The query object of the export: course, rating, student and the
      \* createdAt range.
      ExportMatch(q) ==
        {f \in feedback : /\ q.course = {} \/ f.course \in q.course
                          /\ q.rating = {} \/ f.rating \in q.rating
                          /\ q.student = {} \/ f.student \in q.student
                          /\ \A d \in q.startDate : DateLeq(d, f.createdAt)
                          /\ \A d \in q.endDate : DateLeq(f.createdAt, d)}
      r == req[i]
      found == {Populate(f, users, courses) : f \in ExportMatch(r.body)}
  IN /\ r.type = "export" /\ r.pc = "find"
     /\ IF \E item \in found : Throws(item)
        THEN RespondWith(i, r, "ServerError", SeedDate, [rows |-> <<>>])
        ELSE \E items \in SortByCreatedDesc(found) :
               Continue(i, [r EXCEPT !.pc = "write",
                                     !.doc = {[k \in 1..Len(items) |-> CsvRow(items[k])]}])
     /\ UNCHANGED <<users, courses, feedback, nextId, lastOrig, world>>

\* await csvWriter.writeRecords(csvData) on feedback_export_<Date.now()>.csv,
\* a name no file has: the temporary file holds the rows, or the write
\* fails, before or after the file was created, and the catch block
\* answers 500.
ExportWrite(i) ==
  LET r == req[i]
  IN /\ r.type = "export" /\ r.pc = "write"
     /\ \E fileName \in {"t1"} \ temp :
          \/ /\ temp' = temp \cup {fileName}
             /\ Continue(i, [r EXCEPT !.pc = "download", !.target = fileName])
          \/ /\ temp' \in {temp, temp \cup {fileName}}
             /\ RespondWith(i, r, "ServerError", SeedDate, [rows |-> <<>>])
     /\ UNCHANGED <<users, courses, feedback, nextId, lastOrig, host, adminPage, auth>>

\* res.download(filePath, fileName, callback): the file is sent, or the
\* transfer fails and the callback answers 500; the callback then sets the
\* clean-up timer.  When the transfer fails after the headers went out,
\* res.status(500).json throws in the callback and no timer is set.
ExportDownload(i) ==
  LET r == req[i]
      rows == CHOOSE x \in r.doc : TRUE
  IN /\ r.type = "export" /\ r.pc = "download"
     /\ \/ \E err \in BOOLEAN :
             /\ req' = [req EXCEPT ![i] = [r EXCEPT !.pc = "cleanup"]]
             /\ sent' = ReadResponse(r, IF err THEN "DownloadError" ELSE "Exported",
                                     SeedDate, [rows |-> rows])
        \/ RespondWith(i, r, "HeadersSent", SeedDate, [rows |-> <<>>])
     /\ UNCHANGED <<users, courses, feedback, nextId, lastOrig, world>>

\* setTimeout(() => fs.unlinkSync(filePath), 10000)
ExportCleanup(i) ==
  LET r == req[i]
  IN /\ r.type = "export" /\ r.pc = "cleanup"
     /\ temp' = temp \ {r.target}
     /\ req' = [req EXCEPT ![i] = IdleReq]
     /\ sent' = NoResponse
     /\ UNCHANGED <<users, courses, feedback, nextId, lastOrig, host, adminPage, auth>>

\* The admin listing and export requests, one at a time.
NextList ==
  \E i \in {"r1"} :
    \/ \E a \in AdminSessions, q \in ListQueries : AdminListStart(i, a, q)
    \/ AdminListFind(i)
    \/ AdminListCount(i)
    \/ \E a \in AdminSessions, q \in ListQueries : ExportStart(i, a, q)
    \/ ExportFind(i)
    \/ ExportWrite(i)
    \/ ExportDownload(i)
    \/ ExportCleanup(i)

SpecList == InitList /\ [][NextList]_vars

NextExport ==
  \E i \in {"r1"} :
    \/ \E a \in AdminSessions, q \in {q \in ListQueries : \A k \in DOMAIN q : q[k] = {}} :
         ExportStart(i, a, q)
    \/ ExportFind(i)
    \/ ExportWrite(i)
    \/ ExportDownload(i)
    \/ ExportCleanup(i)

\* Exports of the whole collection, over the stores of at most one record.
InitExport == InitList /\ Cardinality(feedback) <= 1

\* The event loop runs every continuation and every timer that is due.
SpecExport == InitExport /\ [][NextExport]_vars /\ WF_vars(NextExport)

(* ------------------- course names and codes: strings -------------------- *)
\* String.prototype.trim / the validators' .trim() sanitizer.
Trim(s) ==
  CASE s = " Biology " -> "Biology"
    [] s = " BIO1 " -> "BIO1"
    [] OTHER -> s

\* String.prototype.toUpperCase / courseSchema code: uppercase.
ToUpperCase(s) ==
  CASE s = "bio1" -> "BIO1"
    [] OTHER -> s

\* /^[A-Z0-9]+$/ on the strings above.
MatchesUpperAlnum(s) == s \in {"ALG1", "BIO1", "CHE1", "DRA1", "ECO1", "FRE1"}

\* The ObjectIds the Course collection hands out.
CoursePool == {"c1", "c2", "c3"}

\* The store of the course requests: the course c1 and the admin.
InitCourses ==
  /\ users = {UserDoc(u, SeedDate) : u \in {"a1"} \cup Students}
  /\ courses = {CourseDoc("c1")}
  /\ feedback = {}
  /\ nextId = 1
  /\ req = [i \in Slots |-> IdleReq]
  /\ sent = NoResponse
  /\ lastOrig = [s \in Students |-> "none"]
  /\ InitWorld

\* req.body of the course requests: name and code (optional on update),
\* isActive (update only).
CourseBody(name, code, isActive) == [name |-> name, code |-> code, isActive |-> isActive]

\* The validators of both routes, after their .trim(): the code matches
\* /^[A-Z0-9]+$/ (name and code lengths are in range for every input).
CourseBodyValid(b) == \A k \in b.code : MatchesUpperAlnum(Trim(k))

\* The validators leave the trimmed strings in req.body.
Sanitized(b) == [b EXCEPT !.name = {Trim(n) : n \in b.name}, !.code = {Trim(k) : k \in b.code}]

NameIndexRejects_NoIndex(id, name) == FALSE

\* Unique index on name: another document has the name.
NameIndexRejects(id, name) == \E c \in courses : c.id /= id /\ c.name = name

\* Unique index on code: another document has the code.
CodeIndexRejects(id, code) == \E c \in courses : c.id /= id /\ c.code = code

\* The catch block of both handlers.
CourseCatch(code) == IF code = 11000 THEN "CourseExists" ELSE "ServerError"

(* ------------------------- POST /api/courses ---------------------------- *)
CreateCourseStart(i, a, b) ==
  /\ Free(i)
  /\ Protect(a)
  /\ AdminOnly(a)
  /\ Cardinality(courses)
       + Cardinality({j \in Slots : req[j].type = "createCourse" /\ req[j].pc /= "idle"})
       < Cardinality(CoursePool)
  /\ Continue(i, [IdleReq EXCEPT !.type = "createCourse", !.pc = "validate",
                                !.caller = a, !.body = b])
  /\ UNCHANGED <<users, courses, feedback, nextId, lastOrig, world>>

\* The validators and validationResult(req): 400 'Validation failed', or
\* the handler goes on with the sanitized body.
CreateCourseValidate(i) ==
  LET r == req[i]
  IN /\ r.type = "createCourse" /\ r.pc = "validate"
     /\ IF ~CourseBodyValid(r.body) THEN Respond(i, r, "ValidationFailed", 0)
        ELSE Continue(i, [r EXCEPT !.pc = "findOne", !.body = Sanitized(r.body)])
     /\ UNCHANGED <<users, courses, feedback, nextId, lastOrig, world>>

\* name.trim() and code.trim().toUpperCase() of the request in slot i.
BodyName(r) == {Trim(n) : n \in r.body.name}
BodyCode(r) == {ToUpperCase(Trim(k)) : k \in r.body.code}

\* const existingCourse = await Course.findOne({ $or: [{name}, {code}] }).
CreateCourseFindOne(i) ==
  LET r == req[i]
      existingCourse == {c \in courses : c.name \in BodyName(r) \/ c.code \in BodyCode(r)}
  IN /\ r.type = "createCourse" /\ r.pc = "findOne"
     /\ IF existingCourse /= {} THEN Respond(i, r, "CourseExists", 0)
        ELSE Goto(i, r, "create")
     /\ UNCHANGED <<users, courses, feedback, nextId, lastOrig, world>>

\* await Course.create({...}): insert, or duplicate-key error into catch;
\* then the creator is populated and the course is sent with 201.
CreateCourseCreate(i) ==
  LET r == req[i]
      name == CHOOSE n \in BodyName(r) : TRUE
      code == CHOOSE k \in BodyCode(r) : TRUE
      id == CHOOSE c \in CoursePool : CourseById(c) = {}
  IN /\ r.type = "createCourse" /\ r.pc = "create"
     /\ IF NameIndexRejects("none", name) \/ CodeIndexRejects("none", code)
        THEN /\ Respond(i, r, CourseCatch(11000), 0)
             /\ UNCHANGED <<courses, world>>
        ELSE /\ courses' = courses \cup
                  {[id |-> id, isActive |-> TRUE, name |-> name, code |-> ToUpperCase(code)]}
             /\ Respond(i, [r EXCEPT !.target = id], "CourseCreated", 0)
     /\ UNCHANGED <<users, feedback, nextId, lastOrig, world>>

(* ------------------------ PUT /api/courses/:id -------------------------- *)
UpdateCourseStart(i, a, c, b) ==
  /\ Free(i)
  /\ Protect(a)
  /\ AdminOnly(a)
  /\ Continue(i, [IdleReq EXCEPT !.type = "updateCourse", !.pc = "validate",
                                !.caller = a, !.target = c, !.body = b])
  /\ UNCHANGED <<users, courses, feedback, nextId, lastOrig, world>>

\* The validators and validationResult(req) of the update route.
UpdateCourseValidate(i) ==
  LET r == req[i]
  IN /\ r.type = "updateCourse" /\ r.pc = "validate"
     /\ IF ~CourseBodyValid(r.body) THEN Respond(i, r, "ValidationFailed", 0)
        ELSE Continue(i, [r EXCEPT !.pc = "findById", !.body = Sanitized(r.body)])
     /\ UNCHANGED <<users, courses, feedback, nextId, lastOrig, world>>

\* duplicateQuery: the name and the code of the body that differ from the
\* loaded document's.
DuplicateNames(r, course) == {n \in BodyName(r) : n /= course.name}
DuplicateCodes(r, course) == {k \in BodyCode(r) : k /= course.code}

\* const course = await Course.findById(req.params.id); 404; the duplicate
\* check is skipped when duplicateQuery is empty.
UpdateCourseFindById(i) ==
  LET r == req[i]
      found == CourseById(r.target)
  IN /\ r.type = "updateCourse" /\ r.pc = "findById"
     /\ IF found = {} THEN Respond(i, r, "CourseNotFound", 0)
        ELSE LET course == CHOOSE c \in found : TRUE
             IN IF DuplicateNames(r, course) = {} /\ DuplicateCodes(r, course) = {}
                THEN Continue(i, [r EXCEPT !.pc = "save", !.doc = found])
                ELSE Continue(i, [r EXCEPT !.pc = "findDup", !.doc = found])
     /\ UNCHANGED <<users, courses, feedback, nextId, lastOrig, world>>

\* const existingCourse = await Course.findOne({ _id: { $ne }, $or: duplicateQuery }).
UpdateCourseFindDup(i) ==
  LET r == req[i]
      course == CHOOSE c \in r.doc : TRUE
      existingCourse ==
        {c \in courses : /\ c.id /= course.id
                         /\ \/ c.name \in DuplicateNames(r, course)
                            \/ c.code \in DuplicateCodes(r, course)}
  IN /\ r.type = "updateCourse" /\ r.pc = "findDup"
     /\ IF existingCourse /= {} THEN Respond(i, r, "CourseExists", 0)
        ELSE Goto(i, r, "save")
     /\ UNCHANGED <<users, courses, feedback, nextId, lastOrig, world>>

\* The assignments to the loaded document and await course.save(): save
\* writes the paths whose value changed ($set), the unique indexes reject a
\* name or code another document has, and a document that is gone makes
\* save throw; then the creator is populated and the course is sent.
UpdateCourseSave(i) ==
  LET r == req[i]
      course == CHOOSE c \in r.doc : TRUE
      names == DuplicateNames(r, course)
      codes == DuplicateCodes(r, course)
      actives == {b \in r.body.isActive : b /= course.isActive}
      stored == CourseById(r.target)
  IN /\ r.type = "updateCourse" /\ r.pc = "save"
     /\ IF names = {} /\ codes = {} /\ actives = {}
        THEN Respond(i, r, "CourseUpdated", 0) /\ UNCHANGED <<courses, world>>
        ELSE IF stored = {}
        THEN Respond(i, r, CourseCatch(0), 0) /\ UNCHANGED <<courses, world>>
        ELSE IF \/ \E n \in names : NameIndexRejects(r.target, n)
                \/ \E k \in codes : CodeIndexRejects(r.target, k)
        THEN Respond(i, r, CourseCatch(11000), 0) /\ UNCHANGED <<courses, world>>
        ELSE /\ courses' = (courses \ stored) \cup
                  {[id |-> c.id,
                    isActive |-> IF actives = {} THEN c.isActive ELSE CHOOSE b \in actives : TRUE,
                    name |-> IF names = {} THEN c.name ELSE CHOOSE n \in names : TRUE,
                    code |-> IF codes = {} THEN c.code ELSE CHOOSE k \in codes : TRUE] :
                     c \in stored}
             /\ Respond(i, r, "CourseUpdated", 0)
     /\ UNCHANGED <<users, feedback, nextId, lastOrig, world>>

\* Create-course and update-course requests, two at a time.
NextCourses ==
  LET \* A new name, a new code, the name and code course c1 starts with, a
      \* lowercase code, and isActive alone.
      UpdateCourseBodies ==
        {CourseBody({"Biology"}, {}, {}), CourseBody({}, {"BIO1"}, {}),
         CourseBody({"Algebra"}, {"ALG1"}, {FALSE}), CourseBody({"Biology"}, {"bio1"}, {}),
         CourseBody({}, {}, {FALSE})}
      \* The bodies the admin sends: a new course, the same with blanks around
      \* its strings, a taken name with a free code, a lowercase code.
      CreateCourseBodies ==
        {CourseBody({"Biology"}, {"BIO1"}, {}), CourseBody({" Biology "}, {" BIO1 "}, {}),
         CourseBody({"Algebra"}, {"BIO1"}, {}), CourseBody({"Algebra"}, {"bio1"}, {})}
  IN
       \E i \in Slots :
         \/ \E a \in AdminSessions, b \in CreateCourseBodies : CreateCourseStart(i, a, b)
         \/ CreateCourseValidate(i)
         \/ CreateCourseFindOne(i)
         \/ CreateCourseCreate(i)
         \/ \E a \in AdminSessions, c \in {"c1", "c2"}, b \in UpdateCourseBodies :
              UpdateCourseStart(i, a, c, b)
         \/ UpdateCourseValidate(i)
         \/ UpdateCourseFindById(i)
         \/ UpdateCourseFindDup(i)
         \/ UpdateCourseSave(i)

SpecCourses == InitCourses /\ [][NextCourses]_vars

\* A dashboard request while another admin session creates a course,
\* toggles a course, blocks a student or deletes one.
NextDash ==
  \/ \E a \in AdminSessions : DashboardStart("r1", a)
  \/ DashboardCount("r1")
  \/ DashboardCollect("r1")
  \/ \E i \in {"r2"} :
       \/ \E a \in AdminSessions : CreateCourseStart(i, a, CourseBody({"Biology"}, {"BIO1"}, {}))
       \/ CreateCourseValidate(i)
       \/ CreateCourseFindOne(i)
       \/ CreateCourseCreate(i)
       \/ \E a \in AdminSessions : ToggleActiveStart(i, a, "c1")
       \/ ToggleActiveFind(i)
       \/ ToggleActiveSave(i)
       \/ \E a \in AdminSessions : ToggleBlockStart(i, a, "s1")
       \/ ToggleBlockFind(i)
       \/ ToggleBlockSave(i)
       \/ \E a \in AdminSessions : DeleteStudentStart(i, a, "s2")
       \/ DeleteStudentFind(i)
       \/ DeleteStudentCount(i)
       \/ DeleteStudentRemove(i)

SpecDash == InitCourses /\ [][NextDash]_vars

(* ------------- POST /api/users/profile/picture (upload) ---------------- *)
\* folder 'student_feedback_app/profile_pictures' and public_id
\* `user_${user._id}`: the public id of the asset, which is also the id the
\* handler passes to cloudinary.uploader.destroy.
PublicId(u) == <<"student_feedback_app/profile_pictures", "user_", u>>

\* Two students without a picture, an empty image host.
InitUpload ==
  /\ users = {[id |-> u, role |-> RoleOf(u), isBlocked |-> FALSE, profilePicture |-> <<>>] :
                u \in Students}
  /\ courses = {}
  /\ feedback = {}
  /\ nextId = 1
  /\ req = [i \in Slots |-> IdleReq]
  /\ sent = NoResponse
  /\ lastOrig = [s \in Students |-> "none"]
  /\ InitWorld

\* protect, upload.single('profilePicture'), then the check of req.file
\* (file is {} when the form has no image, else the buffer).
UploadStart(i, u, file) ==
  /\ Free(i)
  /\ Protect(u)
  /\ LET r == [IdleReq EXCEPT !.type = "upload", !.pc = "findById", !.caller = u,
                              !.target = u, !.body = file]
     IN IF file = {} THEN Respond(i, r, "NoImage", 0) ELSE Continue(i, r)
  /\ UNCHANGED <<users, courses, feedback, nextId, lastOrig, world>>

\* const user = await User.findById(req.user.id); upload_stream(..).end(buffer)
\* starts the upload.
UploadFindById(i) ==
  LET r == req[i]
      user == UserById(r.caller)
  IN /\ r.type = "upload" /\ r.pc = "findById"
     /\ IF user = {} THEN Respond(i, r, "UserNotFound", 0)
        ELSE Continue(i, [r EXCEPT !.pc = "upload", !.doc = user])
     /\ UNCHANGED <<users, courses, feedback, nextId, lastOrig, world>>

\* const result = await uploadPromise: the host stores the buffer under the
\* public id, in place of the asset it had there, or the upload fails.  On
\* success, if (user.profilePicture) the destroy comes before the save.
UploadStream(i) ==
  LET r == req[i]
      user == CHOOSE x \in r.doc : TRUE
      id == PublicId(user.id)
      \* result.secure_url: the delivery URL of the asset with that public id.
      SecureUrl(publicId) == [scheme |-> "https", asset |-> publicId]
  IN /\ r.type = "upload" /\ r.pc = "upload"
     /\ \/ /\ host' = {a \in host : a.publicId /= id} \cup
                        {[publicId |-> id, bytes |-> b] : b \in r.body}
           /\ Continue(i, [r EXCEPT !.pc = IF user.profilePicture /= <<>> THEN "destroy"
                                              ELSE "save",
                                  !.mod = {SecureUrl(id)}])
        \/ /\ host' = host
           /\ Respond(i, r, "UploadFailed", 0)
     /\ UNCHANGED <<users, courses, feedback, nextId, lastOrig, temp, adminPage, auth>>

\* await cloudinary.uploader.destroy(public id), in its own try: the host
\* removes the asset with that public id, or the call fails and is logged.
UploadDestroy(i) ==
  LET r == req[i]
      user == CHOOSE x \in r.doc : TRUE
  IN /\ r.type = "upload" /\ r.pc = "destroy"
     /\ host' \in {{a \in host : a.publicId /= PublicId(user.id)}, host}
     /\ Goto(i, r, "save")
     /\ UNCHANGED <<users, courses, feedback, nextId, lastOrig, temp, adminPage, auth>>

\* user.profilePicture = result.secure_url; await user.save(); 200.  The
\* save throws when the document is gone.
UploadSave(i) ==
  LET r == req[i]
      cur == UserById(r.caller)
      url == CHOOSE x \in r.mod : TRUE
  IN /\ r.type = "upload" /\ r.pc = "save"
     /\ IF cur = {}
        THEN /\ Respond(i, r, "UploadFailed", 0)
             /\ UNCHANGED users
        ELSE /\ users' = (users \ cur) \cup {[c EXCEPT !.profilePicture = <<url>>] : c \in cur}
             /\ Respond(i, r, "PictureUploaded", 0)
     /\ UNCHANGED <<courses, feedback, nextId, lastOrig, world>>

\* Uploads of the two students, of one of two images or of no image.
NextUpload ==
  \E i \in Slots :
    \/ \E u \in Students, file \in {{}, {"img1"}, {"img2"}} : UploadStart(i, u, file)
    \/ UploadFindById(i)
    \/ UploadStream(i)
    \/ UploadDestroy(i)
    \/ UploadSave(i)

SpecUpload == InitUpload /\ [][NextUpload]_vars

(* ------------------- AdminFeedback page (browser) ---------------------- *)
\* A store of twelve records, alternating between two courses and created
\* on twelve days: more than one page of PAGINATION_CONFIG.defaultLimit.
\* The page is mounted: its initial state, and the request of its effect.
InitPage ==
  LET pagination0 == [currentPage |-> 1, totalPages |-> 1, totalItems |-> 0,
                      itemsPerPage |-> DefaultLimit]
      filters0 == [course |-> "", rating |-> ""]
  IN /\ users = {UserDoc(u, SeedDate) : u \in {"a1"} \cup Students}
     /\ courses = {CourseDoc("c1"), CourseDoc("c2")}
     /\ feedback = {FeedbackDoc(k, IF k % 3 = 0 THEN "s1" ELSE "s2",
                                IF k % 2 = 1 THEN "c1" ELSE "c2", 1 + (k % 5), "approved",
                                FALSE, Date(2025, 1, k)) : k \in 1..12}
     /\ nextId = 13
     /\ req = [i \in Slots |-> IdleReq]
     /\ sent = NoResponse
     /\ lastOrig = [s \in Students |-> "none"]
     /\ temp = {} /\ host = {} /\ auth = <<>>
     /\ adminPage = [filters |-> filters0, pagination |-> pagination0, feedbacks |-> <<>>,
                     pending |-> {[page |-> 1, limit |-> DefaultLimit, course |-> {},
                                   rating |-> {}, student |-> {}]},
                     toast |-> FALSE, last |-> "mount", quiet |-> TRUE]

\* The argument of adminApi.getAllFeedback in fetchFeedbacks, read from the
\* filters and pagination of the render the function was created in:
\* filters.course || undefined, filters.rating ? parseInt(filters.rating) :
\* undefined.
fetchFeedbacks(filters, pagination) ==
  LET parseInt == CASE filters.rating = "4" -> 4 [] filters.rating = "5" -> 5 [] OTHER -> 0
  IN [page |-> pagination.currentPage, limit |-> pagination.itemsPerPage,
      course |-> IF filters.course = "" THEN {} ELSE {filters.course},
      rating |-> IF filters.rating = "" THEN {} ELSE {parseInt},
      student |-> {}]

\* The response of GET /api/admin/feedback to the query q: the page of the
\* sorted matches (each row by its _id) and the pagination object.
Listing(q) ==
  LET rows == CHOOSE s \in SortByCreatedDesc(ListMatch(q)) : TRUE
      total == Cardinality(ListMatch(q))
      Ids(shown) == [k \in 1..Len(shown) |-> shown[k].id]
  IN [feedback |-> Ids(Page(rows, q.page, q.limit)),
      pagination |-> [currentPage |-> q.page,
                      totalPages |-> (total + q.limit - 1) \div q.limit,
                      totalItems |-> total, itemsPerPage |-> q.limit]]

\* useEffect(.., [pagination.currentPage, sortBy, sortOrder]): after a
\* render in which currentPage changed, fetchFeedbacks of that render runs.
\* (last names the admin's latest action, quiet whether no request was in
\* flight when it was taken.)
Effect(old, filters, pagination) ==
  IF pagination.currentPage /= old.currentPage
  THEN {fetchFeedbacks(filters, pagination)} ELSE {}

\* setFilters(prev => ({ ...prev, [key]: value })).
handleFilterChange(key, value) ==
  /\ adminPage' = [adminPage EXCEPT !.filters[key] = value, !.last = "filter"]
  /\ UNCHANGED <<users, courses, feedback, nextId, req, sent, lastOrig, temp, host, auth>>

\* setPagination(currentPage: 1); fetchFeedbacks() of the current render.
applyFilters ==
  LET p == adminPage
      pagination == [p.pagination EXCEPT !.currentPage = 1]
  IN /\ adminPage' = [p EXCEPT !.pagination = pagination,
                               !.pending = p.pending \cup {fetchFeedbacks(p.filters, p.pagination)}
                                             \cup Effect(p.pagination, p.filters, pagination),
                               !.toast = FALSE, !.last = "apply", !.quiet = p.pending = {}]
     /\ UNCHANGED <<users, courses, feedback, nextId, req, sent, lastOrig, temp, host, auth>>

\* setFilters(all empty); setPagination(currentPage: 1); fetchFeedbacks() of
\* the current render.
clearFilters ==
  LET p == adminPage
      filters == [course |-> "", rating |-> ""]
      pagination == [p.pagination EXCEPT !.currentPage = 1]
  IN /\ adminPage' = [p EXCEPT !.filters = filters, !.pagination = pagination,
                               !.pending = p.pending \cup {fetchFeedbacks(p.filters, p.pagination)}
                                             \cup Effect(p.pagination, filters, pagination),
                               !.toast = FALSE, !.last = "clear", !.quiet = p.pending = {}]
     /\ UNCHANGED <<users, courses, feedback, nextId, req, sent, lastOrig, temp, host, auth>>

\* setPagination(prev => ({ ...prev, currentPage: page })), from a page
\* button the pagination renders.
handlePageChange(page) ==
  LET p == adminPage
      pagination == [p.pagination EXCEPT !.currentPage = page]
  IN /\ page \in 1..p.pagination.totalPages
     /\ adminPage' = [p EXCEPT !.pagination = pagination,
                               !.pending = p.pending \cup Effect(p.pagination, p.filters, pagination),
                               !.last = "page"]
     /\ UNCHANGED <<users, courses, feedback, nextId, req, sent, lastOrig, temp, host, auth>>

\* The await in fetchFeedbacks ends: setFeedbacks(response.feedback) and
\* setPagination(response.pagination), or toast.error in the catch block.
FetchSettle ==
  LET p == adminPage
  IN /\ \E q \in p.pending :
          \/ \E response \in {Listing(q)} :
               adminPage' = [p EXCEPT !.feedbacks = response.feedback,
                                      !.pagination = response.pagination,
                                      !.pending = (p.pending \ {q})
                                         \cup Effect(p.pagination, p.filters, response.pagination)]
          \/ adminPage' = [p EXCEPT !.pending = p.pending \ {q}, !.toast = TRUE]
     /\ UNCHANGED <<users, courses, feedback, nextId, req, sent, lastOrig, temp, host, auth>>

\* The admin's clicks and the answers of the requests in flight.
NextPage ==
  \/ \E value \in {"", "c1"} : handleFilterChange("course", value)
  \/ applyFilters
  \/ clearFilters
  \/ \E page \in 1..2 : handlePageChange(page)
  \/ FetchSettle

SpecPage == InitPage /\ [][NextPage]_vars

(* ---------------------- AuthProvider (browser) ------------------------- *)
\* authReducer(state, action).
authReducer(state, action) ==
  CASE action.type = "SET_LOADING" -> [state EXCEPT !.isLoading = action.payload]
    [] action.type = "SET_USER" ->
         [state EXCEPT !.user = action.payload.user, !.token = action.payload.token,
                       !.isLoading = FALSE, !.isInitialized = TRUE]
    [] action.type = "UPDATE_USER" -> [state EXCEPT !.user = action.payload]
    [] action.type = "LOGOUT" ->
         [state EXCEPT !.user = {}, !.token = {}, !.isLoading = FALSE, !.isInitialized = TRUE]
    [] action.type = "INITIALIZE" ->
         [state EXCEPT !.user = action.payload.user, !.token = action.payload.token,
                       !.isInitialized = TRUE, !.isLoading = FALSE]
    [] OTHER -> state

\* const isAuthenticated = !!state.user && !!state.token (null is {}).
isAuthenticated == auth.state.user /= {} /\ auth.state.token /= {}

\* The browser opens the application: initialState, the local storage of an
\* earlier visit (empty, or the session of s1), nothing in flight.
\* (loggedOut: logout() has completed and no login or register succeeded
\* since.)
InitAuth ==
  /\ users = {[id |-> u, role |-> RoleOf(u), isBlocked |-> FALSE] : u \in UserIds}
  /\ courses = {}
  /\ feedback = {}
  /\ nextId = 1
  /\ req = [i \in Slots |-> IdleReq]
  /\ sent = NoResponse
  /\ lastOrig = [s \in Students |-> "none"]
  /\ temp = {} /\ host = {} /\ adminPage = <<>>
  /\ \E storage \in {[token |-> {}, user |-> {}],
                     [token |-> {<<"jwt", "s1">>}, user |-> {[id |-> "s1", name |-> "Asha"]}]} :
       auth = [state |-> [user |-> {}, token |-> {}, isLoading |-> FALSE,
                          isInitialized |-> FALSE],
               storage |-> storage, calls |-> {}, mounted |-> FALSE, loggedOut |-> FALSE]

\* initializeAuth, run once by the effect of the provider.
initializeAuth ==
  LET a == auth
      none == [type |-> "INITIALIZE", payload |-> [user |-> {}, token |-> {}]]
  IN /\ UNCHANGED <<users, courses, feedback, nextId, req, sent, lastOrig, temp, host, adminPage>>
     /\ \/ \* token && userData: await authApi.getMe(); else INITIALIZE with nulls
           /\ ~a.mounted
           /\ auth' = IF a.storage.token /= {} /\ a.storage.user /= {}
                      THEN [a EXCEPT !.mounted = TRUE,
                                     !.calls = {[fn |-> "getMe", token |-> a.storage.token]}]
                      ELSE [a EXCEPT !.mounted = TRUE, !.state = authReducer(a.state, none)]
        \/ \* getMe answers with the user of the token
           \E c \in a.calls :
             /\ c.fn = "getMe"
             /\ auth' = [a EXCEPT !.calls = a.calls \ {c},
                           !.state = authReducer(a.state,
                              [type |-> "INITIALIZE",
                               payload |-> [user |-> {[id |-> t[2], name |-> "Asha"] : t \in c.token},
                                            token |-> c.token]])]
        \/ \* getMe fails: both keys removed, INITIALIZE with nulls
           \E c \in a.calls :
             /\ c.fn = "getMe"
             /\ auth' = [a EXCEPT !.calls = a.calls \ {c},
                                  !.storage = [token |-> {}, user |-> {}],
                                  !.state = authReducer(a.state, none)]

\* login(email, password) and register(data), from the pages the router
\* shows to a visitor who is not authenticated; u is the account.
login(fn, u) ==
  LET a == auth
  IN /\ UNCHANGED <<users, courses, feedback, nextId, req, sent, lastOrig, temp, host, adminPage>>
     /\ \/ \* dispatch SET_LOADING true; await authApi.login / authApi.register
           /\ a.state.isInitialized /\ ~isAuthenticated
           /\ auth' = [a EXCEPT !.calls = a.calls \cup {[fn |-> fn, token |-> {<<"jwt", u>>}]},
                         !.state = authReducer(a.state, [type |-> "SET_LOADING", payload |-> TRUE])]
        \/ \* response.success: both keys stored, SET_USER
           \E c \in a.calls :
             /\ c.fn = fn /\ c.token = {<<"jwt", u>>}
             /\ LET user == {[id |-> u, name |-> "Asha"]}
                IN auth' = [a EXCEPT !.calls = a.calls \ {c},
                              !.storage = [token |-> c.token, user |-> user],
                              !.state = authReducer(a.state,
                                 [type |-> "SET_USER", payload |-> [user |-> user, token |-> c.token]]),
                              !.loggedOut = FALSE]
        \/ \* catch: SET_LOADING false, toast.error
           \E c \in a.calls :
             /\ c.fn = fn /\ c.token = {<<"jwt", u>>}
             /\ auth' = [a EXCEPT !.calls = a.calls \ {c},
                           !.state = authReducer(a.state, [type |-> "SET_LOADING", payload |-> FALSE])]

\* logout(), from the layout of an authenticated user.
logout ==
  LET a == auth
  IN /\ UNCHANGED <<users, courses, feedback, nextId, req, sent, lastOrig, temp, host, adminPage>>
     /\ \/ \* if (state.token) await authApi.logout()
           /\ isAuthenticated
           /\ auth' = [a EXCEPT !.calls = a.calls \cup {[fn |-> "logout", token |-> a.state.token]}]
        \/ \* the call answers, or fails and the error is logged; finally: both
           \* keys removed, LOGOUT dispatched
           \E c \in a.calls :
             /\ c.fn = "logout"
             /\ auth' = [a EXCEPT !.calls = a.calls \ {c},
                                  !.storage = [token |-> {}, user |-> {}],
                                  !.state = authReducer(a.state, [type |-> "LOGOUT"]),
                                  !.loggedOut = TRUE]

\* onSubmitProfile(data) of the Profile page, a protected route.
onSubmitProfile(name) ==
  LET \* updateUser(user): the user key is written, UPDATE_USER dispatched.
      updateUser(a, user) ==
        [a EXCEPT !.storage.user = user,
                  !.state = authReducer(a.state, [type |-> "UPDATE_USER", payload |-> user])]
      a == auth
  IN /\ UNCHANGED <<users, courses, feedback, nextId, req, sent, lastOrig, temp, host, adminPage>>
     /\ \/ \* await userApi.updateProfile(data), sent with the token
           /\ isAuthenticated
           /\ auth' = [a EXCEPT !.calls = a.calls \cup
                         {[fn |-> "updateProfile", token |-> a.state.token, name |-> name]}]
        \/ \* updateUser(updatedUser)
           \E c \in a.calls :
             /\ c.fn = "updateProfile"
             /\ auth' = updateUser([a EXCEPT !.calls = a.calls \ {c}],
                                   {[id |-> t[2], name |-> c.name] : t \in c.token})
        \/ \* catch: toast.error
           \E c \in a.calls :
             /\ c.fn = "updateProfile"
             /\ auth' = [a EXCEPT !.calls = a.calls \ {c}]

\* What the visitor does and what the server answers.
NextAuth ==
  \/ initializeAuth
  \/ \E fn \in {"login", "register"}, u \in Students : login(fn, u)
  \/ logout
  \/ \E name \in {"Asha", "Asha K"} : onSubmitProfile(name)

SpecAuth == InitAuth /\ [][NextAuth]_vars

(* ------------------------------ claims --------------------------------- *)
\* Slot i, handling a request of the given type, completes the await pc.
Steps(i, type, pc) ==
  /\ req[i].type = type
  /\ req[i].pc = pc
  /\ req'[i].pc /= pc

\* C1 (amended): at most one Feedback per (student, course) pair in every
\* reachable state; a step of a submit request whose pair already has a
\* record adds no record and never answers Created: the course check answers
\* NotFound or InvalidState for a missing or inactive course, and the
\* duplicate check and the insert answer Conflict ('already submitted').
C1_UniquePairs ==
  \A f, g \in feedback : (f.student = g.student /\ f.course = g.course) => f = g

C1_DuplicateSubmitStep(i) ==
  /\ req[i].type = "submit"
  /\ req'[i].pc /= req[i].pc
  /\ FeedbackOfPair(req[i].caller, req[i].target) /= {}

C1_OnePerPair ==
  /\ []C1_UniquePairs
  /\ [][\A i \in Slots : C1_DuplicateSubmitStep(i) =>
          /\ feedback' = feedback
          /\ sent'.resp /= "Created"
          /\ req[i].pc = "findCourse" =>
               \/ sent'.resp \in {"CourseNotFound", "CourseInactive"}
               \/ req'[i].pc = "findOne"
          /\ req[i].pc \in {"findOne", "create"} => sent'.resp = "AlreadySubmitted"]_vars

\* C1 as stated: every submit that is answered while its pair has a record
\* is answered Conflict.
C1_Original ==
  /\ []C1_UniquePairs
  /\ [][\A i \in Slots : (C1_DuplicateSubmitStep(i) /\ req'[i].pc = "idle") =>
          /\ feedback' = feedback
          /\ sent'.resp = "AlreadySubmitted"]_vars

\* A duplicate submit has just been refused by the findOne check.
C1_Witness ==
  /\ sent.type = "submit"
  /\ sent.resp = "AlreadySubmitted"
  /\ sent.at = "findOne"
  /\ feedback /= {}

\* C2: a submit that reaches Feedback.create after passing the findOne check
\* either inserts the only record of its pair and answers Created, or, when
\* a concurrent submit for the same pair wrote first, writes nothing and
\* answers Conflict ('already submitted'), never 'Server error'.
C2_RaceIsConflict ==
  [][\A i \in Slots : Steps(i, "submit", "create") =>
       LET s == req[i].caller
           c == req[i].target
       IN IF FeedbackOfPair(s, c) /= {}
          THEN /\ sent'.resp = "AlreadySubmitted"
               /\ StatusCode(sent'.resp) /= 500
               /\ feedback' = feedback
          ELSE /\ sent'.resp = "Created"
               /\ Cardinality({f \in feedback' : f.student = s /\ f.course = c}) = 1
               /\ Cardinality(feedback') = Cardinality(feedback) + 1]_vars

\* The loser of the race has just been answered from the catch block.
C2_Witness ==
  /\ sent.type = "submit"
  /\ sent.at = "create"
  /\ sent.resp = "AlreadySubmitted"

\* C3: a submit request run on its own is answered by the first failing
\* check, in the order NotFound (course missing), InvalidState (course
\* inactive), Conflict (duplicate), and otherwise Created; it adds exactly
\* one record, for (caller, course), when it answers Created and leaves the
\* stored Feedback records unchanged in every other step.
C3_Expected(s, c) ==
  IF CourseById(c) = {} THEN "CourseNotFound"
  ELSE IF \E d \in CourseById(c) : ~d.isActive THEN "CourseInactive"
  ELSE IF FeedbackOfPair(s, c) /= {} THEN "AlreadySubmitted"
  ELSE "Created"

C3_SubmitChecks ==
  [][\A i \in Slots : (req[i].type = "submit" /\ req'[i].pc /= req[i].pc) =>
       LET s == req[i].caller
           c == req[i].target
       IN IF req'[i].pc /= "idle" THEN feedback' = feedback
          ELSE /\ sent'.resp = C3_Expected(s, c)
               /\ StatusCode(sent'.resp) =
                    (CASE sent'.resp = "CourseNotFound" -> 404
                       [] sent'.resp = "Created" -> 201
                       [] OTHER -> 400)
               /\ IF sent'.resp = "Created"
                  THEN /\ feedback \subseteq feedback'
                       /\ Cardinality(feedback' \ feedback) = 1
                       /\ \A f \in feedback' \ feedback : f.student = s /\ f.course = c
                  ELSE feedback' = feedback]_vars

\* A submit for an inactive course that the caller already gave feedback on
\* has just been answered InvalidState: the course check came first.
C3_Witness ==
  /\ sent.type = "submit"
  /\ sent.resp = "CourseInactive"
  /\ FeedbackOfPair(sent.caller, sent.target) /= {}

\* C4: a step of an update or delete request on a stored Feedback record
\* whose author is not the caller answers Forbidden (403) and leaves every
\* stored Feedback record, that one included, unchanged.
C4_NotOwnerForbidden ==
  [][\A i \in Slots :
       (/\ req[i].type \in {"update", "delete"}
        /\ req'[i].pc /= req[i].pc
        /\ \E f \in FeedbackById(req[i].fid) : f.student /= req[i].caller) =>
       /\ sent'.resp = "NotAuthorized"
       /\ StatusCode(sent'.resp) = 403
       /\ feedback' = feedback]_vars

\* Another student's update of a stored record has just been refused.
C4_Witness ==
  /\ sent.type = "update"
  /\ sent.resp = "NotAuthorized"
  /\ \E f \in FeedbackById(sent.fid) : f.student /= sent.caller /\ f.student \in Students

\* C5: every stored Feedback record references a Course and a User that are
\* in the store.
C5_NeverOrphaned ==
  \A f \in feedback : CourseById(f.course) /= {} /\ UserById(f.student) /= {}

\* C6: the count step of a delete-course request on a course with n >= 1
\* Feedback records answers with the refusal that names exactly n and leaves
\* courses and feedback unchanged; a toggle-active request on a course that
\* is in the store goes through and flips isActive, whatever the number of
\* feedback records that reference the course.
C6_GuardedDelete ==
  [][\A i \in Slots :
       /\ (Steps(i, "deleteCourse", "count") /\ CountByCourse(req[i].target) >= 1) =>
            /\ sent'.resp = "CannotDeleteCourse"
            /\ sent'.count = CountByCourse(req[i].target)
            /\ courses' = courses
            /\ feedback' = feedback
       /\ (Steps(i, "toggleActive", "find") /\ CourseById(req[i].target) /= {}) =>
            req'[i].pc = "save"
       /\ (Steps(i, "toggleActive", "save") /\ CourseById(req[i].target) /= {}) =>
            /\ sent'.resp = "CourseToggled"
            /\ courses' = (courses \ CourseById(req[i].target)) \cup req[i].doc
            /\ \A d \in req[i].doc : d.id = req[i].target
            /\ feedback' = feedback]_vars

\* A delete has just been refused naming both feedback records of a course
\* that an earlier toggle-active deactivated.
C6_Witness ==
  /\ sent.type = "deleteCourse"
  /\ sent.resp = "CannotDeleteCourse"
  /\ sent.count = 2
  /\ \E c \in CourseById(sent.target) : ~c.isActive

\* C7: run one request at a time, a successful toggle-block sets the
\* student's isBlocked to its negation and changes no other user, and the
\* second of two successive toggles of a student restores the value the
\* first one replaced.
C7_ToggleRoundTrip ==
  [][\A i \in Slots : (Steps(i, "toggleBlock", "save") /\ sent'.resp = "StudentToggled") =>
       LET u == req[i].target
       IN /\ \A x \in UserById(u) : \E y \in users' :
               /\ y = [x EXCEPT !.isBlocked = ~x.isBlocked]
               /\ users' = (users \ {x}) \cup {y}
               /\ lastOrig[u] /= "none" => y.isBlocked = (lastOrig[u] = "true")
          /\ UserById(u) /= {}]_vars

\* The second toggle of a student has just unblocked them again.
C7_Witness ==
  /\ sent.type = "toggleBlock"
  /\ sent.resp = "StudentToggled"
  /\ lastOrig[sent.target] = "true"
  /\ \E x \in UserById(sent.target) : ~x.isBlocked

\* C8: every admin is in the store and not blocked in every reachable state,
\* and a toggle-block or delete-student request whose target is a user with
\* a role other than 'student' (the calling admin included) is rejected with
\* a 400 response and changes no user.
C8_AdminsIntact ==
  \A a \in Admins : \E x \in users : x.id = a /\ x.role = "admin" /\ ~x.isBlocked

C8_AdminProtected ==
  /\ []C8_AdminsIntact
  /\ [][\A i \in Slots :
          (/\ req[i].type \in {"toggleBlock", "deleteStudent"}
           /\ req'[i].pc /= req[i].pc
           /\ \E x \in UserById(req[i].target) : x.role /= "student" \/ x.id = req[i].caller) =>
          /\ req'[i].pc = "idle"
          /\ StatusCode(sent'.resp) = 400
          /\ users' = users]_vars

\* The admin has just been refused the deletion of their own account.
C8_Witness ==
  /\ sent.type = "deleteStudent"
  /\ sent.target = sent.caller
  /\ StatusCode(sent.resp) = 400

\* C9: the tags of every stored Feedback record contain the sentiment tag of
\* its current rating.
C9_SentimentTagPresent ==
  \A f \in feedback : Includes(f.tags, SentimentTag(f.rating))

\* C10: every stored Feedback record has status 'approved', and no step
\* changes the status of a record that stays in the store.
C10_Approved == \A f \in feedback : f.status = "approved"

C10_AlwaysApproved ==
  /\ []C10_Approved
  /\ [][\A f \in feedback, g \in feedback' : f.id = g.id => g.status = f.status]_vars

\* An edited record is in the store while its course is deactivated and its
\* author blocked.
C10_Witness ==
  \E f \in feedback :
    /\ f.message = "m2"
    /\ f.status = "approved"
    /\ \E c \in CourseById(f.course) : ~c.isActive
    /\ \E x \in UserById(f.student) : x.isBlocked

\* C11: the statistics a course-statistics request returns for course c
\* count exactly the records of c with status 'approved': totalFeedback is
\* their number, averageRating (in hundredths) is their mean rating rounded
\* to two decimals (0 when there is none), and ratingDistribution[r] is the
\* number of them with rating r for r in 1..5; the ratings 5, 5, 4, 3, 1
\* give 3.6 and the distribution 1:1, 2:0, 3:1, 4:1, 5:2.
C11_Approved(c) == {f \in feedback : f.course = c /\ f.status = "approved"}

C11_Count(S, r) == Cardinality({f \in S : f.rating = r})

C11_Sum(S) ==
  C11_Count(S, 1) + 2 * C11_Count(S, 2) + 3 * C11_Count(S, 3)
    + 4 * C11_Count(S, 4) + 5 * C11_Count(S, 5)

\* avg is the mean of S to two decimals: within half a hundredth of it.
C11_IsRoundedMean(avg, S) ==
  LET n == Cardinality(S)
      d == n * avg - 100 * C11_Sum(S)
  IN IF n = 0 THEN avg = 0 ELSE 2 * d <= n /\ -(2 * d) <= n

C11_CourseStatistics ==
  (sent.type = "courseStats" /\ sent.resp = "CourseStats") =>
    LET S == C11_Approved(sent.target)
        stats == sent.body.stats
    IN /\ stats.totalFeedback = Cardinality(S)
       /\ C11_IsRoundedMean(stats.averageRating, S)
       /\ \A r \in 1..5 : stats.ratingDistribution[r] = C11_Count(S, r)
       /\ (/\ Cardinality(S) = 5
           /\ C11_Count(S, 5) = 2 /\ C11_Count(S, 4) = 1 /\ C11_Count(S, 3) = 1
           /\ C11_Count(S, 1) = 1) =>
            /\ stats.averageRating = 360
            /\ stats.ratingDistribution = <<1, 0, 1, 1, 2>>

\* The statistics of the course with the approved ratings 5, 5, 4, 3, 1 have
\* just been returned.
C11_Witness ==
  /\ sent.type = "courseStats" /\ sent.resp = "CourseStats"
  /\ sent.body.stats.totalFeedback = 5
  /\ sent.body.stats.averageRating = 360
  /\ Cardinality(C11_Approved(sent.target)) = 5

\* C12: the course-statistics request for a course that is in the store
\* goes on from its lookup and is answered 200 with the statistics, which
\* are totalFeedback 0, averageRating 0 and five zero buckets when the
\* course has no approved feedback; the request for a course id that is not
\* in the store is answered 404 'Course not found'; no step of the request
\* answers 'Server error'.
C12_ZeroStats ==
  [totalFeedback |-> 0, averageRating |-> 0, ratingDistribution |-> <<0, 0, 0, 0, 0>>]

C13_Returned ==
  CASE sent.resp = "CourseStats" -> {sent.body.stats}
    [] sent.resp = "UserStats" -> {sent.body}
    [] sent.resp = "Dashboard" -> {sent.body.feedback}
    [] OTHER -> {}

C13_FiveBuckets ==
  \A stats \in C13_Returned :
    LET dist == stats.ratingDistribution
    IN /\ DOMAIN dist = {1, 2, 3, 4, 5}
       /\ \A r \in DOMAIN dist : dist[r] \in Nat
       /\ dist[1] + dist[2] + dist[3] + dist[4] + dist[5] = stats.totalFeedback

\* A student's statistics over two records have just been returned with
\* three of the five buckets at zero.
C13_Witness ==
  /\ sent.resp = "UserStats"
  /\ sent.body.totalFeedback = 2
  /\ Cardinality({r \in 1..5 : sent.body.ratingDistribution[r] = 0}) = 3

\* C14: the overall statistics on the dashboard have totalFeedback = the
\* number of approved records, totalCourses = the number of distinct courses
\* that approved records refer to, and avgFeedbackPerCourse (in hundredths)
\* = totalFeedback / totalCourses rounded to two decimals; with no approved
\* record totalFeedback, averageRating, totalCourses, avgFeedbackPerCourse
\* and the five buckets are all zero, and the request is still answered 200.
C14_Approved == {f \in feedback : f.status = "approved"}

C14_Courses == {c \in StatCourses : \E f \in C14_Approved : f.course = c}

C14_OverallStatistics ==
  /\ sent.resp = "Dashboard" =>
       LET o == sent.body.feedback
           tf == Cardinality(C14_Approved)
           tc == Cardinality(C14_Courses)
           d == tc * o.avgFeedbackPerCourse - 100 * tf
       IN /\ o.totalFeedback = tf
          /\ o.totalCourses = tc
          /\ 2 * d <= tc /\ -(2 * d) <= tc
          /\ tf = 0 =>
               /\ o.averageRating = 0
               /\ o.totalCourses = 0
               /\ o.avgFeedbackPerCourse = 0
               /\ o.ratingDistribution = <<0, 0, 0, 0, 0>>
  /\ sent.type = "dashboard" => sent.resp = "Dashboard" /\ StatusCode(sent.resp) = 200

\* The dashboard has just reported four approved records over three courses,
\* 1.33 a course.
C14_Witness ==
  /\ sent.resp = "Dashboard"
  /\ sent.body.feedback.totalFeedback = 4
  /\ sent.body.feedback.totalCourses = 3
  /\ sent.body.feedback.avgFeedbackPerCourse = 133

\* C15: the topCourses list of the dashboard has at most 5 entries, its
\* feedbackCount never increases along the list, no course occurs twice,
\* every entry is a course of the store with feedbackCount = the number of
\* its approved records, which is >= 1, and no course of the store that is
\* left out has more approved records than a course in the list.
C15_ApprovedOf(c) ==
  Cardinality({f \in feedback : f.course = c /\ f.status = "approved"})

C15_TopCourses ==
  sent.resp = "Dashboard" =>
    LET top == sent.body.topCourses
        listed == {top[k].courseId : k \in 1..Len(top)}
    IN /\ Len(top) <= 5
       /\ \A k \in 1..Len(top) - 1 : top[k].feedbackCount >= top[k + 1].feedbackCount
       /\ \A j, k \in 1..Len(top) : top[j].courseId = top[k].courseId => j = k
       /\ \A k \in 1..Len(top) :
            /\ CourseById(top[k].courseId) /= {}
            /\ top[k].feedbackCount = C15_ApprovedOf(top[k].courseId)
            /\ top[k].feedbackCount >= 1
       /\ \A c \in courses : c.id \notin listed =>
            \A k \in 1..Len(top) : C15_ApprovedOf(c.id) <= top[k].feedbackCount

\* Six courses have approved feedback: the list has just been cut to five,
\* from a course with two records down to courses with one.
C15_Witness ==
  /\ sent.resp = "Dashboard"
  /\ Len(sent.body.topCourses) = 5
  /\ sent.body.topCourses[1].feedbackCount = 2
  /\ sent.body.topCourses[5].feedbackCount = 1
  /\ \E c \in courses :
       /\ C15_ApprovedOf(c.id) = 1
       /\ \A k \in 1..5 : sent.body.topCourses[k].courseId /= c.id

\* C16: the monthlyTrends list of the dashboard has no entry with count 0:
\* it has exactly one entry for each calendar month in which some record was
\* created on or after the day six months before the request, the count of
\* an entry is the number of those records of its month, and the entries
\* come in ascending (year, month) order.
C16_MonthNo(d) == 12 * d.year + d.month

C16_InWindow(f, now) ==
  \/ C16_MonthNo(f.createdAt) > C16_MonthNo(now) - 6
  \/ C16_MonthNo(f.createdAt) = C16_MonthNo(now) - 6 /\ f.createdAt.day >= now.day

C16_Months(now) ==
  {C16_MonthNo(f.createdAt) : f \in {g \in feedback : C16_InWindow(g, now)}}

C17_Own(s) == {f \in feedback : f.student = s}

C17_AllStatuses ==
  sent.resp = "UserStats" =>
    /\ sent.body.totalFeedback = Cardinality(C17_Own(sent.caller))
    /\ \A r \in 1..5 :
         sent.body.ratingDistribution[r] =
           Cardinality({f \in C17_Own(sent.caller) : f.rating = r})
    /\ C11_IsRoundedMean(sent.body.averageRating, C17_Own(sent.caller))

\* A student with a rejected and another record has just been told of two
\* records, while other students have feedback in the store.
C17_Witness ==
  /\ sent.resp = "UserStats"
  /\ sent.body.totalFeedback = 2
  /\ \E f \in C17_Own(sent.caller) : f.status = "rejected"
  /\ \E g \in feedback : g.student /= sent.caller

\* C18: the number of rows the CSV export writes for a query equals the
\* totalItems the admin listing returns for the same query parameters
\* (course, rating, student, startDate, endDate) on the same store.
C18_SameCount ==
  (sent.type = "export" /\ sent.resp \in {"Exported", "DownloadError", "ServerError"}) =>
    Len(sent.body.rows) = Cardinality(ListMatch(sent.query))

\* C19: the rows that the admin listing and the CSV export return for a
\* record with isAnonymous = true are the same in every store that differs
\* only in the name and email of a student, and the stored record keeps the
\* reference to its author.
C19_Renamed ==
  {(users \ {x}) \cup {[x EXCEPT !.name = "Zed", !.email = "zed@x.io"]} :
     x \in {y \in users : y.role = "student"}}

C19_AuthorHidden ==
  /\ sent.resp = "FeedbackList" =>
       \A k \in 1..Len(sent.body.feedback) :
         LET row == sent.body.feedback[k]
         IN row.isAnonymous =>
              \A us \in C19_Renamed : \A f \in FeedbackById(row.id) :
                Populate(f, us, courses) = row
  /\ sent.resp = "Exported" =>
       \A k \in 1..Len(sent.body.rows) :
         LET row == sent.body.rows[k]
         IN row.IsAnonymous = "Yes" =>
              \A us \in C19_Renamed :
                \A f \in {g \in feedback : ToString(g.id) = row.FeedbackID} :
                  CsvRow(Populate(f, us, courses)) = row
  /\ \A f \in feedback : f.isAnonymous => f.student \in Authors

\* C20: under every interleaving of create-course and update-course
\* requests no two courses share a name and no two share a code, and every
\* stored code is made of uppercase letters and digits; a body whose code is
\* not is answered 'Validation failed' before any other check; a create
\* past validation whose name or code another course has, and an update
\* whose changed name or code another course has, are answered 'Course with
\* this name or code already exists' and change no course; an update that
\* sends the name and code of the document it loaded is never answered so.
C20_Unique ==
  /\ \A c, d \in courses : c /= d => c.id /= d.id /\ c.name /= d.name /\ c.code /= d.code
  /\ \A c \in courses : MatchesUpperAlnum(c.code)

\* Another course than id has one of the names or one of the codes.
C20_Taken(id, names, codes) ==
  \E c \in courses : c.id /= id /\ (c.name \in names \/ c.code \in codes)

\* The names and codes of the body of r that differ from those of course.
C20_NewNames(r, course) == {Trim(n) : n \in r.body.name} \ {course.name}
C20_NewCodes(r, course) == {ToUpperCase(Trim(k)) : k \in r.body.code} \ {course.code}

C20_Duplicate(i) ==
  LET r == req[i]
  IN \/ /\ r.type = "createCourse" /\ r.pc \in {"findOne", "create"}
        /\ C20_Taken("none", BodyName(r), BodyCode(r))
     \/ /\ r.type = "updateCourse" /\ r.pc \in {"findDup", "save"}
        /\ \E course \in r.doc :
             C20_Taken(r.target, C20_NewNames(r, course), C20_NewCodes(r, course))

C20_UniqueCourses ==
  /\ []C20_Unique
  /\ [][\A i \in Slots :
          /\ (req[i].type \in {"createCourse", "updateCourse"} /\ req'[i].pc /= req[i].pc
              /\ req[i].pc = "validate") =>
               IF \E k \in req[i].body.code : ~MatchesUpperAlnum(Trim(k))
               THEN sent'.resp = "ValidationFailed" /\ courses' = courses
               ELSE req'[i].pc \in {"findOne", "findById"}
          /\ (req'[i].pc /= req[i].pc /\ C20_Duplicate(i)) =>
               /\ sent'.resp = "CourseExists"
               /\ StatusCode(sent'.resp) = 400
               /\ courses' = courses
          /\ (req[i].type = "updateCourse" /\ req'[i].pc /= req[i].pc
              /\ \E course \in req[i].doc :
                   C20_NewNames(req[i], course) = {} /\ C20_NewCodes(req[i], course) = {}) =>
               sent'.resp /= "CourseExists"]_vars

\* C20 as stated: a create or update whose name or code another course has
\* is answered 'Course with this name or code already exists', whatever
\* step answers it.
C20_Original ==
  /\ []C20_Unique
  /\ [][\A i \in Slots :
          /\ (req'[i].pc = "idle" /\ req[i].type = "createCourse" /\ req[i].pc /= "idle"
              /\ C20_Taken("none", BodyName(req[i]), BodyCode(req[i]))) =>
               sent'.resp = "CourseExists" /\ courses' = courses
          /\ (req'[i].pc = "idle" /\ req[i].type = "updateCourse" /\ req[i].pc /= "idle"
              /\ \E course \in CourseById(req[i].target) :
                   C20_Taken(req[i].target, C20_NewNames(req[i], course),
                             C20_NewCodes(req[i], course))) =>
               sent'.resp = "CourseExists" /\ courses' = courses]_vars

\* Two creates of the same new course ran together: the second insert has
\* just been refused by the unique index.
C20_Witness ==
  /\ sent.type = "createCourse"
  /\ sent.at = "create"
  /\ sent.resp = "CourseExists"
  /\ Cardinality(courses) = 2

C22_Given(body, had) ==
  IF body.tags /= {} THEN CastTags(CHOOSE ts \in body.tags : TRUE) ELSE had

C22_Appended(given, g) ==
  \/ g.tags = given
  \/ /\ g.tags = given \o <<SentimentTag(g.rating)>>
     /\ ~Includes(given, SentimentTag(g.rating))

C22_AppendOnly ==
  [][\A i \in Slots, id \in FeedbackIds :
       /\ (Steps(i, "submit", "create") /\ sent'.resp = "Created" /\ nextId = id) =>
            \A g \in FeedbackById(id)' : C22_Appended(C22_Given(req[i].body, <<>>), g)
       /\ (Steps(i, "update", "save") /\ sent'.resp = "Updated" /\ req[i].fid = id) =>
            \A f \in FeedbackById(id), g \in FeedbackById(id)' :
              /\ C22_Appended(C22_Given(req[i].body, f.tags), g)
              /\ (req[i].body.tags = {} /\ SentimentTag(g.rating) /= SentimentTag(f.rating)) =>
                   /\ Includes(g.tags, SentimentTag(g.rating))
                   /\ \A k \in 1..Len(f.tags) : g.tags[k] = f.tags[k]
                   /\ Includes(f.tags, SentimentTag(f.rating)) =>
                        Includes(g.tags, SentimentTag(f.rating))]_vars

\* An update without a tags array has just moved a rating back to a bucket
\* whose tag the record already had: nothing was appended, and the tags of
\* both buckets are there.
C22_Witness ==
  /\ sent.type = "update"
  /\ sent.resp = "Updated"
  /\ \E f \in FeedbackById(sent.fid) :
       /\ f.rating = 5
       /\ Includes(f.tags, "neutral")
       /\ Includes(f.tags, "positive")
       /\ f.tags[Len(f.tags)] = "neutral"

C24_WrittenWhileActive ==
  [][\A i \in Slots, c \in CourseIds :
       (Steps(i, "submit", "create") /\ req[i].target = c /\ feedback' /= feedback) =>
         \E course \in CourseById(c) : course.isActive]_vars

\* C27: every successful toggle-block request negates the stored isBlocked
\* of its student, so that k of them, however interleaved, leave the
\* original value negated k times.
C27_EveryToggleNegates ==
  [][\A i \in Slots, u \in Students :
       (Steps(i, "toggleBlock", "save") /\ req[i].target = u
        /\ sent'.resp = "StudentToggled") =>
         \A x \in UserById(u), y \in UserById(u)' : y.isBlocked = ~x.isBlocked]_vars

\* C28: the user and course counts of every dashboard response are
\* consistent although its count queries run one after the other while the
\* store changes: blockedStudents and inactiveCourses are not negative and
\* activeStudents + blockedStudents = totalStudents.
C28_ConsistentCounts ==
  sent.resp = "Dashboard" =>
    /\ sent.body.users.blockedStudents >= 0
    /\ sent.body.courses.inactiveCourses >= 0
    /\ sent.body.users.activeStudents + sent.body.users.blockedStudents
         = sent.body.users.totalStudents

\* C26: in every reachable state the two course-statistics functions agree:
\* for every stored course, Course.getStatistics and
\* Feedback.getCourseStatistics return the same totalFeedback, averageRating
\* and ratingDistribution.
C26_Agree ==
  \A c \in courses :
    LET own == getStatistics(c.id)
        approved == getCourseStatistics(c.id)
    IN /\ own.totalFeedback = approved.totalFeedback
       /\ own.averageRating = approved.averageRating
       /\ own.ratingDistribution = approved.ratingDistribution

\* A course with two records of different ratings, counted by both.
C26_Witness ==
  \E c \in courses :
    /\ getStatistics(c.id).totalFeedback = 2
    /\ getCourseStatistics(c.id).totalFeedback = 2
    /\ \E f \in feedback, g \in feedback :
         f.course = c.id /\ g.course = c.id /\ f.rating < g.rating

\* C25: an upload by a user who already had a picture that answers success
\* leaves in User.profilePicture a URL whose asset exists at the image host;
\* the cleanup of the old asset leaves the asset just uploaded in place; and
\* the handler goes on to the save whether the cleanup succeeded or failed.
C25_HadPicture(i) == \E x \in req[i].doc : x.profilePicture /= <<>>

\* The assets of the image host that a URL delivers.
C25_Delivered(url) == {a \in host : a.publicId = url.asset}

C25_Uploaded(i) ==
  {[publicId |-> PublicId(req[i].caller), bytes |-> b] : b \in req[i].body}

C25_NewAssetKept ==
  [][\A i \in Slots :
       /\ (Steps(i, "upload", "destroy") /\ C25_Uploaded(i) \subseteq host) =>
            /\ C25_Uploaded(i) \subseteq host'
            /\ req'[i].pc = "save"
       /\ (Steps(i, "upload", "save") /\ C25_HadPicture(i)
             /\ sent'.resp = "PictureUploaded") =>
            \A x \in UserById(req[i].caller)' :
              /\ x.profilePicture /= <<>>
              /\ C25_Delivered(x.profilePicture[1])' /= {}]_vars

\* C29: when Clear Filters or Apply Filters was the last thing the admin did
\* (with no request in flight at that time), every request has been answered
\* and none failed, the displayed list is
\* page 1 of the listing for the filters the page now holds.
C29_ShowsCurrentFilters ==
  (/\ adminPage.last \in {"apply", "clear"} /\ adminPage.quiet
   /\ adminPage.pending = {} /\ ~adminPage.toast) =>
    adminPage.feedbacks =
      Listing(fetchFeedbacks(adminPage.filters,
                             [adminPage.pagination EXCEPT !.currentPage = 1])).feedback

\* C30: isAuthenticated holds only when user and token are both set, and
\* from the completion of logout() until the next successful login or
\* register, isAuthenticated is false and local storage holds neither the
\* token key nor the user key.
C30_LoggedOut ==
  /\ isAuthenticated => (auth.state.user /= {} /\ auth.state.token /= {})
  /\ auth.loggedOut =>
       /\ ~isAuthenticated
       /\ auth.storage.token = {}
       /\ auth.storage.user = {}

====
